---------------------------- MODULE Spec2Model ----------------------------
(***************************************************************************)
(* Model of the hand-written layers of the goyouscore client: the caching  *)
(* transport decorator (cachingDoer), its cache key and URL sanitization,  *)
(* and the per-route API-key selector.                                     *)
(*                                                                         *)
(* Go strings and byte slices are sequences of one-character strings, so   *)
(* that prefix tests, substring tests, case folding, splitting and byte-   *)
(* wise ordering are computed on the characters as the code computes them. *)
(***************************************************************************)
EXTENDS Integers, Sequences, FiniteSets, TLC

(***************************************************************************)
(* Bytes and the package strings                                           *)
(***************************************************************************)

\* The printable ASCII characters in code order, starting at code 32 (code 96,
\* the backquote, cannot be written in a string here and is spelled out).
AsciiTable ==
  <<" ","!","\"","#","$","%","&","'","(",")","*","+",",","-",".","/",
    "0","1","2","3","4","5","6","7","8","9",":",";","<","=",">","?",
    "@","A","B","C","D","E","F","G","H","I","J","K","L","M","N","O",
    "P","Q","R","S","T","U","V","W","X","Y","Z","[","\\","]","^","_",
    "backquote","a","b","c","d","e","f","g","h","i","j","k","l","m","n","o",
    "p","q","r","s","t","u","v","w","x","y","z","{","|","}","~">>

Printable == {AsciiTable[i] : i \in 1..Len(AsciiTable)}

\* The byte value of a character (tab is the one control character modelled).
OrdTable == [c \in Printable |-> 31 + (CHOOSE i \in 1..Len(AsciiTable) : AsciiTable[i] = c)]

Ord(c) == IF c = "\t" THEN 9 ELSE OrdTable[c]

\* The character of a byte value; a value outside tab and 32..126 is not
\* used by any input of the model.
Chr(n) == IF n \in 32..126 THEN AsciiTable[n - 31] ELSE "\t"

\* unicode.ToLower on one ASCII byte.
LowerChar(c) == IF Ord(c) \in 65..90 THEN Chr(Ord(c) + 32) ELSE c

\* strings.ToLower
ToLower(s) == [i \in 1..Len(s) |-> LowerChar(s[i])]

\* strings.HasPrefix
HasPrefix(s, prefix) ==
  /\ Len(s) >= Len(prefix)
  /\ SubSeq(s, 1, Len(prefix)) = prefix

\* strings.HasSuffix
HasSuffix(s, suffix) ==
  /\ Len(s) >= Len(suffix)
  /\ SubSeq(s, Len(s) - Len(suffix) + 1, Len(s)) = suffix

\* strings.TrimPrefix: at most one occurrence of prefix is removed.
TrimPrefix(s, prefix) ==
  IF HasPrefix(s, prefix) THEN SubSeq(s, Len(prefix) + 1, Len(s)) ELSE s

\* The 1-based positions at which substr occurs in s.
Occurrences(s, substr) ==
  {i \in 1..(Len(s) - Len(substr) + 1) : SubSeq(s, i, i + Len(substr) - 1) = substr}

\* The least of a set of positions, 0 for the empty set.
First(hits) == IF hits = {} THEN 0 ELSE CHOOSE i \in hits : \A j \in hits : i <= j

\* strings.Index: the 1-based position of the first occurrence, 0 if none.
Index(s, substr) == First(Occurrences(s, substr))

\* strings.Contains
Contains(s, substr) == Index(s, substr) # 0

\* strings.Count for a one-byte separator.
Count(s, c) == Cardinality({i \in 1..Len(s) : s[i] = c})

\* strings.Cut: the text before and after the first occurrence of sep.
CutAt(s, sep, i) ==
  IF i = 0
    THEN [before |-> s, after |-> <<>>, found |-> FALSE]
    ELSE [before |-> SubSeq(s, 1, i - 1),
          after  |-> SubSeq(s, i + Len(sep), Len(s)),
          found  |-> TRUE]

Cut(s, sep) == CutAt(s, sep, Index(s, sep))

\* Byte-wise string order, as Go compares strings.
RECURSIVE StrLess(_, _)
StrLess(a, b) ==
  IF b = <<>> THEN FALSE
  ELSE IF a = <<>> THEN TRUE
  ELSE IF Ord(Head(a)) # Ord(Head(b)) THEN Ord(Head(a)) < Ord(Head(b))
  ELSE StrLess(Tail(a), Tail(b))

\* slices.Sorted over a set of strings.
Least(S) == CHOOSE x \in S : \A y \in S \ {x} : StrLess(x, y)

RECURSIVE SortStrings(_)
SortStrings(S) ==
  IF S = {} THEN <<>>
  ELSE <<Least(S)>> \o SortStrings(S \ {Least(S)})

(***************************************************************************)
(* The package net/url, as far as sanitizeURL and cachingDoer.Do use it.   *)
(* A url.URL is a record of Scheme, Host, Path, RawQuery and ForceQuery;   *)
(* URLs with a fragment, user information or an opaque part are not        *)
(* modelled, and a path holds no character that String would escape.       *)
(***************************************************************************)

HexDigits == <<"0","1","2","3","4","5","6","7","8","9","A","B","C","D","E","F">>

ishex(c) == Ord(c) \in (48..57) \cup (65..70) \cup (97..102)

unhex(c) ==
  IF Ord(c) \in 48..57 THEN Ord(c) - 48
  ELSE IF Ord(c) \in 97..102 THEN Ord(c) - 97 + 10
  ELSE Ord(c) - 65 + 10

\* Whether every "%" of s starts a "%XX" escape (the first pass of unescape).
ValidEscapes(s) ==
  \A i \in 1..Len(s) :
    s[i] = "%" => (i + 2 <= Len(s) /\ ishex(s[i + 1]) /\ ishex(s[i + 2]))

\* url.QueryUnescape on a string with valid escapes: "%XX" becomes the byte,
\* "+" becomes a space.
RECURSIVE unescape(_)
unescape(s) ==
  IF s = <<>> THEN <<>>
  ELSE IF Head(s) = "%"
    THEN <<Chr(16 * unhex(s[2]) + unhex(s[3]))>> \o unescape(SubSeq(s, 4, Len(s)))
  ELSE IF Head(s) = "+" THEN <<" ">> \o unescape(Tail(s))
  ELSE <<Head(s)>> \o unescape(Tail(s))

\* shouldEscape in query-component mode: only letters, digits, "-", "_", "."
\* and "~" are left as they are.
shouldEscape(c) ==
  ~ (Ord(c) \in (48..57) \cup (65..90) \cup (97..122) \cup {45, 95, 46, 126})

\* url.QueryEscape
RECURSIVE QueryEscape(_)
QueryEscape(s) ==
  IF s = <<>> THEN <<>>
  ELSE (IF Head(s) = " " THEN <<"+">>
        ELSE IF shouldEscape(Head(s))
          THEN <<"%", HexDigits[(Ord(Head(s)) \div 16) + 1],
                      HexDigits[(Ord(Head(s)) % 16) + 1]>>
        ELSE <<Head(s)>>) \o QueryEscape(Tail(s))

\* url.Values: the parameter names with, for each, its values in order.
EmptyValues == [k \in {} |-> <<>>]

ValuesAdd(v, k, val) ==
  [x \in DOMAIN v \cup {k} |->
     IF x = k THEN (IF k \in DOMAIN v THEN Append(v[k], val) ELSE <<val>>)
     ELSE v[x]]

\* Values.Del
ValuesDel(v, k) == [x \in DOMAIN v \ {k} |-> v[x]]

\* url.ParseQuery with its error dropped, as URL.Query calls it: the query is
\* cut at each "&"; a piece holding ";" or an invalid escape is discarded, an
\* empty piece is skipped, the others are cut at their first "=" and
\* unescaped.
RECURSIVE parseQuery(_, _)

\* A piece cut at its first "=": kv.before is the name, kv.after the value.
parsePair(m, kv, rest) ==
  IF ~ ValidEscapes(kv.before) \/ ~ ValidEscapes(kv.after)
    THEN parseQuery(m, rest)
    ELSE parseQuery(ValuesAdd(m, unescape(kv.before), unescape(kv.after)), rest)

\* The query cut at its first "&": c.before is the piece, c.after the rest.
parsePiece(m, c) ==
  IF Contains(c.before, <<";">>) \/ c.before = <<>>
    THEN parseQuery(m, c.after)
    ELSE parsePair(m, Cut(c.before, <<"=">>), c.after)

parseQuery(m, query) ==
  IF query = <<>> THEN m ELSE parsePiece(m, Cut(query, <<"&">>))

\* Values.Encode: "name=value" pieces joined by "&", the names in sorted
\* order, the values of one name in their own order, all escaped.
RECURSIVE encodeValues(_, _)
encodeValues(k, vals) ==
  IF vals = <<>> THEN <<>>
  ELSE <<QueryEscape(k) \o <<"=">> \o QueryEscape(Head(vals))>>
         \o encodeValues(k, Tail(vals))

RECURSIVE joinAmp(_)
joinAmp(pieces) ==
  IF pieces = <<>> THEN <<>>
  ELSE IF Len(pieces) = 1 THEN Head(pieces)
  ELSE Head(pieces) \o <<"&">> \o joinAmp(Tail(pieces))

RECURSIVE encodeKeys(_, _)
encodeKeys(v, keys) ==
  IF keys = <<>> THEN <<>>
  ELSE encodeValues(Head(keys), v[Head(keys)]) \o encodeKeys(v, Tail(keys))

Encode(v) == joinAmp(encodeKeys(v, SortStrings(DOMAIN v)))

\* URL.Query
Query(u) == parseQuery(EmptyValues, u.RawQuery)

\* URL.String
String(u) ==
  u.Scheme \o <<":","/","/">> \o u.Host \o u.Path
    \o (IF u.ForceQuery \/ u.RawQuery # <<>> THEN <<"?">> \o u.RawQuery ELSE <<>>)

\* stringContainsCTLByte
stringContainsCTLByte(s) == \E i \in 1..Len(s) : Ord(s[i]) < 32 \/ Ord(s[i]) = 127

\* url.Parse of an absolute URL "scheme://host/path?query".  ok is FALSE when
\* Parse returns an error: a control character, no scheme, an invalid escape
\* in the path (a URL without "scheme://" is not an input of the model).  The
\* scheme is lower-cased; the query is kept as written.

\* setPath, and the URL put together.
parsePath(rawURL, scheme, host, path, rawQuery, force, bad) ==
  [ok  |-> ~ (bad \/ stringContainsCTLByte(rawURL) \/ ~ ValidEscapes(path)),
   url |-> [Scheme     |-> ToLower(scheme),
            Host       |-> host,
            Path       |-> path,
            RawQuery   |-> rawQuery,
            ForceQuery |-> force]]

\* parseAuthority: auth is what follows "//", cut at its first "/".
parseAuthority(rawURL, scheme, auth, rawQuery, force, bad) ==
  parsePath(rawURL, scheme, auth.before,
            IF auth.found THEN <<"/">> \o auth.after ELSE <<>>,
            rawQuery, force, bad)

\* rest is what lies between the scheme and the query.
parseRest(rawURL, scheme, rest, rawQuery, force, bad) ==
  parseAuthority(rawURL, scheme, Cut(SubSeq(rest, 3, Len(rest)), <<"/">>),
                 rawQuery, force, bad \/ ~ HasPrefix(rest, <<"/","/">>))

\* The query is cut off at the first "?"; a lone trailing "?" sets ForceQuery.
parseQueryPart(rawURL, scheme, rest0, q, bad) ==
  IF HasSuffix(rest0, <<"?">>) /\ Count(rest0, "?") = 1
    THEN parseRest(rawURL, scheme, SubSeq(rest0, 1, Len(rest0) - 1), <<>>, TRUE, bad)
    ELSE parseRest(rawURL, scheme, q.before, q.after, FALSE, bad)

\* getScheme: sch is rawURL cut at its first ":".
getScheme(rawURL, sch) ==
  parseQueryPart(rawURL, sch.before, sch.after, Cut(sch.after, <<"?">>),
                 ~ sch.found \/ sch.before = <<>>)

Parse(rawURL) == getScheme(rawURL, Cut(rawURL, <<":">>))

(***************************************************************************)
(* Cache key and URL sanitization                                          *)
(***************************************************************************)

\* The query parameter names that may carry a secret.
sensitiveQueryParams ==
  << <<"a","p","i","k","e","y">>, <<"a","p","i","_","k","e","y">>, <<"a","p","i","-","k","e","y">>,
     <<"t","o","k","e","n">>, <<"a","c","c","e","s","s","_","t","o","k","e","n">>, <<"a","u","t","h","o","r","i","z","a","t","i","o","n">> >>

isSensitiveParam(name) ==
  \E i \in 1..Len(sensitiveQueryParams) : ToLower(name) = sensitiveQueryParams[i]

\* A loop that stops after the first sensitive name it has deleted.
delSensitiveOnce(q, params) ==
  IF \E p \in params : isSensitiveParam(p)
    THEN ValuesDel(q, CHOOSE p \in params : isSensitiveParam(p))
    ELSE q

\* The loop of sanitizeURL over the names of q: a sensitive name is deleted.
RECURSIVE delSensitive(_, _)

delParam(q, params, param) ==
  delSensitive(IF isSensitiveParam(param) THEN ValuesDel(q, param) ELSE q,
               params \ {param})

delSensitive(q, params) ==
  IF params = {} THEN q ELSE delParam(q, params, CHOOSE p \in params : TRUE)

\* sanitizeURL once the URL has been parsed into u.
sanitizeParsed(u) ==
  String([u EXCEPT !.RawQuery = Encode(delSensitive(Query(u), DOMAIN Query(u)))])

\* A sanitizeURL that drops the query of a URL it cannot parse.
sanitizeOutcomeFailsClosed(rawURL, p) ==
  IF ~ p.ok THEN Cut(rawURL, <<"?">>).before ELSE sanitizeParsed(p.url)

\* p is the outcome of url.Parse(rawURL).
sanitizeOutcome(rawURL, p) == IF ~ p.ok THEN rawURL ELSE sanitizeParsed(p.url)

sanitizeURL(rawURL) == sanitizeOutcome(rawURL, Parse(rawURL))

\* An io.Reader over a byte slice: the bytes, how many of them have been read,
\* whether reading it fails, and whether it has been closed.
NewReader(b) == [data |-> b, pos |-> 0, bad |-> FALSE, closed |-> FALSE, nil |-> FALSE]

\* A body whose Read fails before the end of the bytes.
FailingReader(b) == [data |-> b, pos |-> 0, bad |-> TRUE, closed |-> FALSE, nil |-> FALSE]

\* A request or response without a body (a nil Body).
NoBody == [data |-> <<>>, pos |-> 0, bad |-> FALSE, closed |-> FALSE, nil |-> TRUE]

\* io.ReadAll: the bytes not yet read, the error if reading fails, and the
\* reader left at its end.
ReadAll(r) ==
  [bytes  |-> SubSeq(r.data, r.pos + 1, Len(r.data)),
   err    |-> r.bad,
   reader |-> [r EXCEPT !.pos = Len(r.data)]]

\* sha256 followed by hex.EncodeToString.  The digest is not computed: it is
\* the hashed byte string under a tag, so that two digests are equal exactly
\* when the hashed byte strings are.
Sha256Hex(bytes) == <<"sha256">> \o bytes

\* cacheKey: the digest of method, URL and body bytes written one after the
\* other; the body is read to its end and replaced by a reader over the
\* bytes read.  req is the request as the call leaves it.

\* A cacheKey that leaves the body it has read in place of restoring it.
cacheKeyBodyConsumed(req, rd) ==
  IF rd.err
    THEN [key |-> <<>>, bodyBytes |-> <<>>, err |-> TRUE,
          req |-> [req EXCEPT !.Body = rd.reader]]
    ELSE [key |-> Sha256Hex(req.Method \o String(req.URL) \o rd.bytes),
          bodyBytes |-> rd.bytes, err |-> FALSE,
          req |-> [req EXCEPT !.Body = rd.reader]]

\* A cacheKey that hashes what it could read when reading the body fails.
cacheKeyBodyIgnoresError(req, rd) ==
  [key |-> Sha256Hex(req.Method \o String(req.URL) \o rd.bytes),
   bodyBytes |-> rd.bytes, err |-> FALSE,
   req |-> [req EXCEPT !.Body = NewReader(rd.bytes)]]

\* rd is the outcome of io.ReadAll(req.Body).
cacheKeyBody(req, rd) ==
  IF rd.err
    THEN [key |-> <<>>, bodyBytes |-> <<>>, err |-> TRUE,
          req |-> [req EXCEPT !.Body = rd.reader]]
    ELSE [key |-> Sha256Hex(req.Method \o String(req.URL) \o rd.bytes),
          bodyBytes |-> rd.bytes, err |-> FALSE,
          req |-> [req EXCEPT !.Body = NewReader(rd.bytes)]]

\* A cacheKey that also hashes the Authorization header.
cacheKeyWithHeader(req) ==
  IF req.Body = NoBody
    THEN [key |-> Sha256Hex(req.Method \o String(req.URL) \o req.Header.Authorization),
          bodyBytes |-> <<>>, err |-> FALSE, req |-> req]
    ELSE cacheKeyBody([req EXCEPT !.Method = req.Method \o req.Header.Authorization],
                      ReadAll(req.Body))

cacheKey(req) ==
  IF req.Body = NoBody
    THEN [key |-> Sha256Hex(req.Method \o String(req.URL)),
          bodyBytes |-> <<>>, err |-> FALSE, req |-> req]
    ELSE cacheKeyBody(req, ReadAll(req.Body))

(***************************************************************************)
(* Bounds and inputs                                                       *)
(***************************************************************************)

\* The number of goroutines that call the client concurrently.
NumCallers == 2

\* The number of requests issued in one behaviour.
MaxRequests == 2

Callers == 1..NumCallers

ServerURL == <<"h","t","t","p","s",":","/","/","a","p","i",".","y","o","u","s","c","o","r","e",".","c","o","m",".","u","a">>

\* A request as the generated client hands it to its HttpRequestDoer: built
\* from the server URL, the operation path and the encoded query, carrying the
\* Authorization header a request editor has set.
NewRequest(method, path, rawQuery, auth, body) ==
  [Method |-> method,
   URL    |-> Parse(ServerURL \o path
                      \o (IF rawQuery = <<>> THEN <<>> ELSE <<"?">> \o rawQuery)).url,
   Header |-> [Authorization |-> auth],
   Body   |-> body]

GET  == <<"G","E","T">>
POST == <<"P","O","S","T">>

PathUsr        == <<"/","v","1","/","u","s","r","/","0","0","0","3","2","1","1","2">>
PathAffiliates == <<"/","v","1","/","a","f","f","i","l","i","a","t","e","s","/","q","u","e","r","y">>
PathRateLimits == <<"/","v","1","/","r","a","t","e","L","i","m","i","t","s">>

\* The requests the callers issue.
Requests ==
  { NewRequest(GET,  PathUsr, <<>>, <<"b","e","a","r","e","r"," ","k","1">>, NoBody),
    NewRequest(GET,  PathUsr, <<>>, <<"b","e","a","r","e","r"," ","k","2">>, NoBody),
    NewRequest(GET,  PathUsr, <<"p","a","g","e","=","2","&","a","p","i","K","e","y","=","s","3","c","r","3","t","&","p","a","g","e","=","1">>, <<"b","e","a","r","e","r"," ","k","1">>, NoBody),
    NewRequest(GET,  PathRateLimits, <<>>, <<"b","e","a","r","e","r"," ","k","1">>, NoBody),
    NewRequest(POST, PathAffiliates, <<>>, <<"b","e","a","r","e","r"," ","k","1">>, NewReader(<<"{","}">>)),
    NewRequest(POST, PathAffiliates, <<>>, <<"b","e","a","r","e","r"," ","k","1">>, FailingReader(<<"{","}">>)) }

\* What the wrapped transport may answer: an error, or a response with a
\* status code, headers and a body (whose reading may fail part-way).
TransportOutcomes ==
  { [err |-> TRUE,  StatusCode |-> 0,   Header |-> [XTest |-> <<>>],         Body |-> NoBody],
    [err |-> FALSE, StatusCode |-> 200, Header |-> [XTest |-> <<"value">>],  Body |-> NewReader(<<"{","\"","o","k","\"",":","t","r","u","e","}">>)],
    [err |-> FALSE, StatusCode |-> 500, Header |-> [XTest |-> <<"other">>],  Body |-> NewReader(<<"n","o">>)],
    [err |-> FALSE, StatusCode |-> 200, Header |-> [XTest |-> <<"value">>],  Body |-> FailingReader(<<"{","\"","o","k","\"",":","t","r","u","e","}">>)] }

(***************************************************************************)
(* State                                                                   *)
(***************************************************************************)

VARIABLES
  pc,        \* per caller: where its call of cachingDoer.Do stands
  req,       \* per caller: the request of that call, as Do has left it so far
  orig,      \* per caller: the request as it was handed to Do
  key,       \* per caller: the cache key Do computed
  resp,      \* per caller: the response received from the wrapped transport
  result,    \* per caller: what Do returned
  trace,     \* per caller: the calls Do made on the cache and the transport
  known,     \* per caller: whether Do had answered an identical request before
  store,     \* mapCache.store: cache key -> CachedResponse
  calls,     \* fakeDoer.calls: the number of calls of the wrapped transport
  issued,    \* the number of requests handed to Do so far
  completed, \* the (method, URL, body) of the cacheable requests Do has answered
  live,      \* cache key -> the live response Do returned when it last stored the key
  usage,     \* the calls of the usage callback the client's editors have made
  fnIn,      \* the argument of the function under test (function specifications)
  fnOut      \* its result, once applied

doVars == <<pc, req, orig, key, resp, result, trace, known, store, calls, issued, completed, live, usage>>
fnVars == <<fnIn, fnOut>>
vars   == <<doVars, fnVars>>

NoRequest  == [Method |-> <<>>, URL |-> Parse(ServerURL).url,
               Header |-> [Authorization |-> <<>>], Body |-> NoBody]
NoResponse == [StatusCode |-> 0, Header |-> [ref |-> <<"none", 0>>, val |-> [XTest |-> <<>>]],
               Body |-> NoBody]
\* What a response holds for its reader: status code, headers, body bytes.
Summary(rsp) ==
  [StatusCode |-> rsp.StatusCode, Header |-> rsp.Header.val,
   Body |-> SubSeq(rsp.Body.data, rsp.Body.pos + 1, Len(rsp.Body.data))]

\* src, on a cache hit, is the live response that was returned when the entry
\* was stored, with the Authorization of the request that fetched it.
NoSource   == [from |-> Summary(NoResponse), auth |-> <<>>]
NoResult   == [resp |-> NoResponse, err |-> "none", hit |-> FALSE, src |-> NoSource]
NotApplied == [applied |-> FALSE]

\* The (method, URL, body) of a request.
Triple(r) == [Method |-> r.Method, URL |-> String(r.URL),
              Body |-> SubSeq(r.Body.data, r.Body.pos + 1, Len(r.Body.data))]

(***************************************************************************)
(* The cache and the wrapped transport                                     *)
(***************************************************************************)

\* A snapshot that holds the body as it is after it has been read: empty.
CachedResponseDrained(status, header, body) ==
  [StatusCode |-> status, Header |-> header, Body |-> <<>>]

\* CachedResponse.  A header map is a reference: ref names the map, val is
\* what it holds.  Body bytes are held by value.
CachedResponse(status, header, body) ==
  [StatusCode |-> status, Header |-> header, Body |-> body]

NoCached == CachedResponse(0, [ref |-> <<"none", 0>>, val |-> [XTest |-> <<>>]], <<>>)

\* mapCache.Get: the entry under key, whatever the URL.
Get(st, url, k) ==
  [ok |-> k \in DOMAIN st, resp |-> IF k \in DOMAIN st THEN st[k] ELSE NoCached]

\* A cache that keeps the entry it already holds under key.
SetKeepsFirst(st, url, k, r) ==
  [x \in DOMAIN st \cup {k} |-> IF x \in DOMAIN st THEN st[x] ELSE r]

\* mapCache.Set: the entry under key is replaced, whatever the URL.
Set(st, url, k, r) == [x \in DOMAIN st \cup {k} |-> IF x = k THEN r ELSE st[x]]

\* A snapshot that takes the header map itself in place of a clone of it.
CloneHeaderShared(h) == h

\* http.Header.Clone: a new map holding the same values.
CloneHeader(h) == [ref |-> <<"clone", h.ref[2]>>, val |-> h.val]

\* The response of the n-th call of the wrapped transport with outcome o.
LiveResponse(o, n) ==
  [StatusCode |-> o.StatusCode,
   Header     |-> [ref |-> <<"transport", n>>, val |-> o.Header],
   Body       |-> o.Body]

(***************************************************************************)
(* cachingDoer.Do                                                          *)
(***************************************************************************)

\* A bypass with its test inverted.
skipCacheInverted(r) == ~ Contains(String(r.URL), <<"/","r","a","t","e","L","i","m","i","t","s">>)

\* The storage bypass of Do.
skipCache(r) == Contains(String(r.URL), <<"/","r","a","t","e","L","i","m","i","t","s">>)

\* The request URL handed to the cache as it is.
cacheURLRaw(r) == String(r.URL)

\* The URL Do hands to the cache.
cacheURL(r) == sanitizeURL(String(r.URL))

GetEvent(url, k)    == [op |-> "Get", url |-> url, key |-> k]
SetEvent(url, k, r) == [op |-> "Set", url |-> url, key |-> k, resp |-> r]
DoEvent(r)          == [op |-> "Do", req |-> r]

\* The request of the model's rate-limit endpoint.
IsRateLimit(r) == r.URL.Path = PathRateLimits

\* A caller hands request r to Do.
Begin(c, r) ==
  /\ pc[c] \in {"idle", "returned"}
  /\ issued < MaxRequests
  /\ issued' = issued + 1
  /\ orig' = [orig EXCEPT ![c] = r]
  /\ known' = [known EXCEPT ![c] = Triple(r) \in completed /\ ~ r.Body.bad]
  /\ resp' = [resp EXCEPT ![c] = NoResponse]
  /\ UNCHANGED <<store, calls, live, fnVars>>

\* Do, when the request body cannot be read: the read error is returned.
DoKeyError(c, r) ==
  LET k == cacheKey(r)
  IN /\ Begin(c, r)
     /\ k.err
     /\ req' = [req EXCEPT ![c] = k.req]
     /\ key' = [key EXCEPT ![c] = k.key]
     /\ trace' = [trace EXCEPT ![c] = <<>>]
     /\ result' = [result EXCEPT ![c] = [resp |-> NoResponse, err |-> "read request body", hit |-> FALSE, src |-> NoSource]]
     /\ pc' = [pc EXCEPT ![c] = "returned"]
     /\ UNCHANGED completed

\* Do, when the cache has the key: the response is rebuilt from the entry.
DoHit(c, r) ==
  LET k      == cacheKey(r)
      rawURL == cacheURL(k.req)
      cached == Get(store, rawURL, k.key)
  IN /\ Begin(c, r)
     /\ ~ k.err
     /\ cached.ok
     /\ req' = [req EXCEPT ![c] = k.req]
     /\ key' = [key EXCEPT ![c] = k.key]
     /\ trace' = [trace EXCEPT ![c] = <<GetEvent(rawURL, k.key)>>]
     /\ result' = [result EXCEPT ![c] =
                     [resp |-> [StatusCode |-> cached.resp.StatusCode,
                                Header     |-> cached.resp.Header,
                                Body       |-> NewReader(cached.resp.Body)],
                      err  |-> "none",
                      hit  |-> TRUE,
                      src  |-> live[k.key]]]
     /\ pc' = [pc EXCEPT ![c] = "returned"]
     /\ completed' = IF IsRateLimit(r) THEN completed ELSE completed \cup {Triple(r)}

\* Do, when the cache does not have the key: the request goes on to the
\* wrapped transport.
DoMiss(c, r) ==
  LET k      == cacheKey(r)
      rawURL == cacheURL(k.req)
      cached == Get(store, rawURL, k.key)
  IN /\ Begin(c, r)
     /\ ~ k.err
     /\ ~ cached.ok
     /\ req' = [req EXCEPT ![c] = k.req]
     /\ key' = [key EXCEPT ![c] = k.key]
     /\ trace' = [trace EXCEPT ![c] = <<GetEvent(rawURL, k.key)>>]
     /\ result' = [result EXCEPT ![c] = NoResult]
     /\ pc' = [pc EXCEPT ![c] = "dispatch"]
     /\ UNCHANGED completed

\* A Do that calls d.inner.Do again when it has failed.
DoTransportErrorRetried(c) ==
  /\ pc[c] = "dispatch"
  /\ \E o \in TransportOutcomes : o.err
  /\ calls' = calls + 1
  /\ trace' = [trace EXCEPT ![c] = Append(@, DoEvent(req[c]))]
  /\ UNCHANGED <<pc, result, req, orig, key, resp, known, store, issued, completed, live, fnVars, usage>>

\* A Do that wraps the error of d.inner.Do in one of its own.
DoTransportErrorWrapped(c) ==
  /\ pc[c] = "dispatch"
  /\ \E o \in TransportOutcomes : o.err
  /\ calls' = calls + 1
  /\ trace' = [trace EXCEPT ![c] = Append(@, DoEvent(req[c]))]
  /\ result' = [result EXCEPT ![c] = [resp |-> NoResponse, err |-> "cache: transport", hit |-> FALSE, src |-> NoSource]]
  /\ pc' = [pc EXCEPT ![c] = "returned"]
  /\ UNCHANGED <<req, orig, key, resp, known, store, issued, completed, live, fnVars, usage>>

\* d.inner.Do fails: the error is returned.
DoTransportError(c) ==
  /\ pc[c] = "dispatch"
  /\ \E o \in TransportOutcomes : o.err
  /\ calls' = calls + 1
  /\ trace' = [trace EXCEPT ![c] = Append(@, DoEvent(req[c]))]
  /\ result' = [result EXCEPT ![c] = [resp |-> NoResponse, err |-> "transport", hit |-> FALSE, src |-> NoSource]]
  /\ pc' = [pc EXCEPT ![c] = "returned"]
  /\ UNCHANGED <<req, orig, key, resp, known, store, issued, completed, live, fnVars, usage>>

\* d.inner.Do answers with the response of outcome o.
DoTransportAnswers(c, o) ==
  /\ pc[c] = "dispatch"
  /\ ~ o.err
  /\ resp' = [resp EXCEPT ![c] = LiveResponse(o, calls + 1)]
  /\ calls' = calls + 1
  /\ trace' = [trace EXCEPT ![c] = Append(@, DoEvent(req[c]))]
  /\ pc' = [pc EXCEPT ![c] = "capture"]
  /\ UNCHANGED <<req, orig, key, result, known, store, issued, completed, live, fnVars, usage>>

\* d.inner.Do answers.
DoTransportOK(c) == \E o \in TransportOutcomes : DoTransportAnswers(c, o)

\* A snapshot that holds the status code and the headers but not the body.
SnapshotWithoutBody(c) ==
  CachedResponse(resp[c].StatusCode, CloneHeader(resp[c].Header), <<>>)

\* The snapshot Do hands to Cache.Set.
Snapshot(c) ==
  CachedResponse(resp[c].StatusCode, CloneHeader(resp[c].Header), ReadAll(resp[c].Body).bytes)

\* A Do that stores what it has read of a body whose reading failed.
DoReadErrorStores(c) ==
  /\ pc[c] = "capture"
  /\ ReadAll(resp[c].Body).err
  /\ store' = Set(store, cacheURL(req[c]), key[c], Snapshot(c))
  /\ trace' = [trace EXCEPT ![c] = Append(@, SetEvent(cacheURL(req[c]), key[c], Snapshot(c)))]
  /\ result' = [result EXCEPT ![c] =
                  [resp |-> [resp[c] EXCEPT !.Body = [ReadAll(resp[c].Body).reader EXCEPT !.closed = TRUE]],
                   err  |-> "read response body",
                   hit  |-> FALSE,
                   src  |-> NoSource]]
  /\ pc' = [pc EXCEPT ![c] = "returned"]
  /\ UNCHANGED <<req, orig, key, resp, known, calls, issued, completed, live, fnVars, usage>>

\* Reading the response body fails: the response, its body closed, and the
\* read error are returned.
DoReadError(c) ==
  LET rd == ReadAll(resp[c].Body)
  IN /\ pc[c] = "capture"
     /\ rd.err
     /\ result' = [result EXCEPT ![c] =
                     [resp |-> [resp[c] EXCEPT !.Body = [rd.reader EXCEPT !.closed = TRUE]],
                      err  |-> "read response body",
                      hit  |-> FALSE,
                      src  |-> NoSource]]
     /\ pc' = [pc EXCEPT ![c] = "returned"]
     /\ UNCHANGED <<req, orig, key, resp, trace, known, store, calls, issued, completed, live, fnVars, usage>>

\* A Do that hands to the cache the responses of status 200 only.
DoStoreToOnlyOK(c, stored) ==
  /\ pc[c] = "capture"
  /\ ~ ReadAll(resp[c].Body).err
  /\ ~ skipCache(req[c])
  /\ store' = IF resp[c].StatusCode = 200 THEN stored ELSE store
  /\ trace' = [trace EXCEPT ![c] =
                 IF resp[c].StatusCode = 200
                   THEN Append(@, SetEvent(cacheURL(req[c]), key[c], Snapshot(c)))
                   ELSE @]
  /\ result' = [result EXCEPT ![c] =
                  [resp |-> [resp[c] EXCEPT !.Body = NewReader(ReadAll(resp[c].Body).bytes)],
                   err  |-> "none",
                   hit  |-> FALSE,
                   src  |-> NoSource]]
  /\ pc' = [pc EXCEPT ![c] = "returned"]
  /\ UNCHANGED <<req, orig, key, resp, known, calls, issued, completed, live, fnVars, usage>>

\* The body is read, the snapshot is handed to Cache.Set, which leaves the
\* cache as stored, and the response is returned.
DoStoreTo(c, stored) ==
  LET body == ReadAll(resp[c].Body).bytes
      url  == cacheURL(req[c])
  IN /\ pc[c] = "capture"
     /\ ~ ReadAll(resp[c].Body).err
     /\ ~ skipCache(req[c])
     /\ store' = stored
     /\ trace' = [trace EXCEPT ![c] = Append(@, SetEvent(url, key[c], Snapshot(c)))]
     /\ result' = [result EXCEPT ![c] =
                     [resp |-> [resp[c] EXCEPT !.Body = NewReader(body)],
                      err  |-> "none",
                      hit  |-> FALSE,
                      src  |-> NoSource]]
     /\ pc' = [pc EXCEPT ![c] = "returned"]
     /\ completed' = IF IsRateLimit(orig[c]) THEN completed
                     ELSE completed \cup {Triple(orig[c])}
     /\ live' = IF key[c] \in DOMAIN stored /\ stored[key[c]] = Snapshot(c)
                  THEN [x \in DOMAIN live \cup {key[c]} |->
                          IF x = key[c]
                            THEN [from |-> Summary([resp[c] EXCEPT !.Body = NewReader(body)]),
                                  auth |-> orig[c].Header.Authorization]
                            ELSE live[x]]
                  ELSE live
     /\ UNCHANGED <<req, orig, key, resp, known, calls, issued, fnVars, usage>>

\* The body is read and the response is stored and returned.
DoStore(c) == DoStoreTo(c, Set(store, cacheURL(req[c]), key[c], Snapshot(c)))

\* The body is read and the response is returned without being stored.
DoSkip(c) ==
  LET rd   == ReadAll(resp[c].Body)
      body == rd.bytes
  IN /\ pc[c] = "capture"
     /\ ~ rd.err
     /\ skipCache(req[c])
     /\ result' = [result EXCEPT ![c] =
                     [resp |-> [resp[c] EXCEPT !.Body = NewReader(body)],
                      err  |-> "none",
                      hit  |-> FALSE,
                      src  |-> NoSource]]
     /\ pc' = [pc EXCEPT ![c] = "returned"]
     /\ completed' = IF IsRateLimit(orig[c]) THEN completed
                     ELSE completed \cup {Triple(orig[c])}
     /\ UNCHANGED <<req, orig, key, resp, trace, known, store, calls, issued, live, fnVars, usage>>

EmptyStore == [k \in {} |-> NoCached]

\* A client built with WithHTTPClient(fake) and WithCache(newMapCache()): no
\* call of Do has been made, the cache is empty.
DoInit ==
  /\ pc = [c \in Callers |-> "idle"]
  /\ req = [c \in Callers |-> NoRequest]
  /\ orig = [c \in Callers |-> NoRequest]
  /\ key = [c \in Callers |-> <<>>]
  /\ resp = [c \in Callers |-> NoResponse]
  /\ result = [c \in Callers |-> NoResult]
  /\ trace = [c \in Callers |-> <<>>]
  /\ known = [c \in Callers |-> FALSE]
  /\ store = EmptyStore
  /\ calls = 0
  /\ issued = 0
  /\ completed = {}
  /\ live = [k \in {} |-> NoSource]
  /\ usage = <<>>

Init ==
  /\ DoInit
  /\ fnIn = NotApplied
  /\ fnOut = NotApplied

Next ==
  \E c \in Callers :
    \/ \E r \in Requests : DoKeyError(c, r) /\ UNCHANGED usage
    \/ \E r \in Requests : DoHit(c, r) /\ UNCHANGED usage
    \/ \E r \in Requests : DoMiss(c, r) /\ UNCHANGED usage
    \/ DoTransportError(c)
    \/ DoTransportOK(c)
    \/ DoReadError(c)
    \/ DoStore(c)
    \/ DoSkip(c)

Spec == Init /\ [][Next]_vars

(***************************************************************************)
(* Properties of cachingDoer.Do                                            *)
(***************************************************************************)

Returned(c) == pc[c] = "returned"

ReachedTransport(c) == \E i \in 1..Len(trace[c]) : trace[c][i].op = "Do"

CacheEvents(c) == {i \in 1..Len(trace[c]) : trace[c][i].op \in {"Get", "Set"}}

\* C1: once Do has answered a cacheable request, every later request with the
\* same method, URL and body is answered from the cache and never reaches the
\* wrapped transport.
C1_CacheHitPath ==
  \A c \in Callers :
    (pc[c] # "idle" /\ known[c])
      => /\ Returned(c)
         /\ result[c].hit
         /\ result[c].err = "none"
         /\ ~ ReachedTransport(c)

\* A POST with a body and a GET without one, each answered from the cache
\* after one call of the transport.
C1_Witness ==
  \E c \in Callers :
    /\ Returned(c) /\ known[c] /\ result[c].hit
    /\ orig[c].Method = POST /\ orig[c].Body.data = <<"{","}">>
    /\ calls = 1 /\ issued = 2

C6_TransportGetsWholeBody ==
  \A c \in Callers :
    \A i \in 1..Len(trace[c]) :
      (trace[c][i].op = "Do" /\ orig[c].Body # NoBody)
        => /\ trace[c][i].req.Body # NoBody
           /\ trace[c][i].req.Body.pos = 0
           /\ trace[c][i].req.Body.data = orig[c].Body.data
           /\ ReadAll(trace[c][i].req.Body).bytes = orig[c].Body.data
           /\ ~ ReadAll(trace[c][i].req.Body).err

C6_Witness ==
  \E c \in Callers :
    /\ ReachedTransport(c)
    /\ orig[c].Body # NoBody
    /\ orig[c].Body.data = <<"{","}">>

\* Whether text, lower-cased, holds name as a query parameter name: after "?"
\* or "&" and before "=", "&" or the end.
HoldsParam(text, name) ==
  \E i \in Occurrences(ToLower(text), name) :
    /\ i > 1
    /\ text[i - 1] \in {"?", "&"}
    /\ \/ i + Len(name) > Len(text)
       \/ text[i + Len(name)] \in {"=", "&"}

HoldsSensitiveParam(text) ==
  \E n \in 1..Len(sensitiveQueryParams) : HoldsParam(text, sensitiveQueryParams[n])

\* The URL texts of the model's requests, each with its sanitized form, and
\* those among all of these that hold a deny-listed parameter.
RequestURLs == {String(r.URL) : r \in Requests}

Sanitized == [u \in RequestURLs |-> sanitizeURL(u)]

SecretBearing ==
  {u \in RequestURLs \cup {Sanitized[v] : v \in RequestURLs} : HoldsSensitiveParam(u)}

C9_ReturnedResponse ==
  \A c \in Callers :
    (Returned(c) /\ result[c].err = "none")
      => /\ result[c].resp.Body # NoBody
         /\ result[c].resp.Body.pos = 0
         /\ ~ result[c].resp.Body.bad
         /\ ~ result[c].resp.Body.closed
         /\ result[c].hit => Summary(result[c].resp) = result[c].src.from
         /\ ~ result[c].hit =>
              Summary(result[c].resp) =
                [StatusCode |-> resp[c].StatusCode,
                 Header     |-> resp[c].Header.val,
                 Body       |-> resp[c].Body.data]

\* A hit has been answered with a non-empty body.
C9_Witness ==
  \E c \in Callers :
    /\ Returned(c) /\ result[c].hit
    /\ result[c].resp.StatusCode = 500
    /\ ReadAll(result[c].resp.Body).bytes = <<"n","o">>

\* C5 (as claimed): a response fetched with one Authorization value is never
\* replayed for a request that carries another.
C5_NoReplayAcrossCredentials ==
  \A c \in Callers :
    (Returned(c) /\ result[c].hit)
      => result[c].src.auth = orig[c].Header.Authorization

(***************************************************************************)
(* cacheKey as a function: it is applied to two requests                   *)
(***************************************************************************)

KeyPaths   == { <<"/","v","1","/","u","s","r","/","0","0","0","3","2","1","1">>, <<"/","v","1","/","u","s","r","/","0","0","0","3","2","1","1","2">> }
KeyQueries == { <<>>, <<"p","a","g","e","=","1">> }
KeyAuths   == { <<"b","e","a","r","e","r"," ","k","1">>, <<"b","e","a","r","e","r"," ","k","2">> }
KeyBodies  == { NoBody, NewReader(<<>>), NewReader(<<"2">>), NewReader(<<"{","}">>),
                FailingReader(<<"{","}">>) }

KeyInputs ==
  { NewRequest(m, p, q, a, b) :
      m \in {GET, POST}, p \in KeyPaths, q \in KeyQueries, a \in KeyAuths, b \in KeyBodies }

InitKey ==
  /\ DoInit
  /\ fnIn \in [a : KeyInputs, b : KeyInputs]
  /\ fnOut = NotApplied

ApplyCacheKey ==
  /\ fnOut = NotApplied
  /\ fnOut' = [applied |-> TRUE, a |-> cacheKey(fnIn.a), b |-> cacheKey(fnIn.b)]
  /\ UNCHANGED <<doVars, fnIn>>

NextKey == ApplyCacheKey

SpecKey == InitKey /\ [][NextKey]_vars

\* Both keys have been computed, without a read error.
KeysComputed == fnOut.applied /\ ~ fnOut.a.err /\ ~ fnOut.b.err

C4_DistinctTriplesDistinctKeys ==
  (KeysComputed /\ Triple(fnIn.a) # Triple(fnIn.b)) => fnOut.a.key # fnOut.b.key

(***************************************************************************)
(* sanitizeURL as a function: it is applied to one URL string              *)
(***************************************************************************)

\* The most query pieces an input URL has.
MaxParams == 3

SanBase == ServerURL \o PathUsr

\* Query pieces that are combined freely: plain parameters, a repeated name,
\* sensitive names in two spellings, a name and a value that only contain a
\* sensitive name, a piece without "=", and a piece with a semicolon.
SanPieces ==
  { <<"p","a","g","e","=","1">>, <<"l","i","m","i","t","=","1","0">>, <<"p","a","g","e","=","2">>, <<"t","o","k","e","n","=","a","b","c">>, <<"A","p","i","K","e","y","=","s","3","c","r","3","t">>,
    <<"t","o","k","e","n","s","=","1">>, <<"q","=","t","o","k","e","n">>, <<"f","l","a","g">>, <<"a",";","b","=","1">> }

\* Query pieces that are tried one at a time.
SanSinglePieces ==
  { <<"a","p","i","k","e","y","=","k">>, <<"a","p","i","_","k","e","y","=","k">>, <<"a","p","i","-","k","e","y","=","k">>, <<"a","c","c","e","s","s","_","t","o","k","e","n","=","t">>,
    <<"a","u","t","h","o","r","i","z","a","t","i","o","n","=","b","e","a","r","e","r","+","a","b","c">>, <<"T","O","K","E","N","=","x">>, <<"A","c","c","e","s","s","_","T","o","k","e","n","=","t">>,
    <<"A","U","T","H","O","R","I","Z","A","T","I","O","N","=","x">>, <<"m","y","t","o","k","e","n","=","1">>, <<"a","p","i","%","5","F","k","e","y","=","k">>, <<"b","a","d","=","%","z","z">>,
    <<"x","=","a","%","2","0","b">>, <<"x","=","%","7","e">>, <<"=","v">> }

SanQueries ==
  { joinAmp(ps) : ps \in UNION { [1..n -> SanPieces] : n \in 0..MaxParams } }
    \cup SanSinglePieces

SanInputs ==
  { SanBase } \cup { SanBase \o <<"?">> \o q : q \in SanQueries }

InitSan ==
  /\ DoInit
  /\ fnIn \in SanInputs
  /\ fnOut = NotApplied

ApplySanitizeURL ==
  /\ fnOut = NotApplied
  /\ fnOut' = [applied |-> TRUE, out |-> sanitizeURL(fnIn)]
  /\ UNCHANGED <<doVars, fnIn>>

NextSan == ApplySanitizeURL

SpecSan == InitSan /\ [][NextSan]_vars

\* The text of a URL before its "?" and after it.
BaseOf(text)  == Cut(text, <<"?">>).before
QueryOf(text) == Cut(text, <<"?">>).after

\* The pieces of a query text between its "&", the empty ones left out.
RECURSIVE PiecesOf(_)
PiecesOf(query) ==
  IF query = <<>> THEN <<>>
  ELSE (IF Cut(query, <<"&">>).before = <<>> THEN <<>>
        ELSE <<Cut(query, <<"&">>).before>>)
       \o PiecesOf(Cut(query, <<"&">>).after)

\* A text with its escapes resolved where they can be.
Decoded(s) == IF ValidEscapes(s) THEN unescape(s) ELSE s

\* The parameters a URL text carries, in their order: name and value are
\* the text before and after the first "=" of a piece.
ParamsOf(text) ==
  [i \in 1..Len(PiecesOf(QueryOf(text))) |->
     [name  |-> Decoded(Cut(PiecesOf(QueryOf(text))[i], <<"=">>).before),
      value |-> Decoded(Cut(PiecesOf(QueryOf(text))[i], <<"=">>).after)]]

NamesOf(ps) == {ps[i].name : i \in 1..Len(ps)}

\* The values one name has among the parameters ps, in their order.
ValuesOf(ps, n) ==
  [i \in 1..Len(SelectSeq(ps, LAMBDA p : p.name = n)) |->
     SelectSeq(ps, LAMBDA p : p.name = n)[i].value]

DenyList ==
  { <<"a","p","i","k","e","y">>, <<"a","p","i","_","k","e","y">>, <<"a","p","i","-","k","e","y">>, <<"t","o","k","e","n">>, <<"a","c","c","e","s","s","_","t","o","k","e","n">>, <<"a","u","t","h","o","r","i","z","a","t","i","o","n">> }

DenyListed(n) == ToLower(n) \in DenyList

\* The names of the parameters ps are in sorted order.
NamesSorted(ps) ==
  \A i \in 1..Len(ps) - 1 : ps[i].name = ps[i + 1].name \/ StrLess(ps[i].name, ps[i + 1].name)

\* C7 (as claimed): the result has no deny-listed parameter; every other
\* parameter of the input is in the result with its values, and no other
\* parameter is; the names are sorted and the URL before "?" is unchanged.
C7_RemovesAllAndOnlyDenyListed ==
  fnOut.applied =>
    /\ BaseOf(fnOut.out) = BaseOf(fnIn)
    /\ \A n \in NamesOf(ParamsOf(fnOut.out)) : ~ DenyListed(n)
    /\ \A n \in NamesOf(ParamsOf(fnIn)) :
         ~ DenyListed(n) => ValuesOf(ParamsOf(fnOut.out), n) = ValuesOf(ParamsOf(fnIn), n)
    /\ NamesOf(ParamsOf(fnOut.out)) \subseteq NamesOf(ParamsOf(fnIn))
    /\ NamesSorted(ParamsOf(fnOut.out))

\* Every piece of the query of a URL text is one that ParseQuery accepts.
Accepted(text) ==
  \A i \in 1..Len(PiecesOf(QueryOf(text))) :
    /\ ~ Contains(PiecesOf(QueryOf(text))[i], <<";">>)
    /\ ValidEscapes(PiecesOf(QueryOf(text))[i])

\* For a URL whose query pieces are all accepted by ParseQuery the result is
\* as C7 describes it.
SanitizedWhenAccepted ==
  Accepted(fnIn) => C7_RemovesAllAndOnlyDenyListed

(***************************************************************************)
(* API keys: the key that is chosen for a request path                     *)
(***************************************************************************)

\* The APIKeys of TestApiKeyForPath, and a second set of keys.
TestKeys ==
  [DataAnalytics |-> <<"d","a","-","k","e","y">>, PDFLegalEntities |-> <<"p","d","f","-","l","e","g","a","l","-","k","e","y">>,
   PDFIndividuals |-> <<"p","d","f","-","i","n","d","-","k","e","y">>, Affiliates |-> <<"a","f","f","-","k","e","y">>]

OtherKeys ==
  [DataAnalytics |-> <<"k","-","d","a","t","a">>, PDFLegalEntities |-> <<"k","-","l","e","g","a","l">>,
   PDFIndividuals |-> <<"k","-","i","n","d">>, Affiliates |-> <<"k","-","a","f","f">>]

\* An apiKeyForPath that keeps the leading slash of the path.
apiKeyForPathUntrimmed(keys, path) ==
  IF HasPrefix(path, <<"v","1","/","c","o","n","t","r","a","c","t","o","r","s","/","p","d","f","-","f","i","l","e","/">>) THEN keys.PDFLegalEntities
  ELSE IF HasPrefix(path, <<"v","1","/","i","n","d","i","v","i","d","u","a","l","s","/","p","d","f","-","r","e","p","o","r","t","s">>) THEN keys.PDFIndividuals
  ELSE IF HasPrefix(path, <<"v","1","/","a","f","f","i","l","i","a","t","e","s">>) THEN keys.Affiliates
  ELSE keys.DataAnalytics

\* The switch of apiKeyForPath on the path without its leading slash.
apiKeyForTrimmed(keys, path) ==
  IF HasPrefix(path, <<"v","1","/","c","o","n","t","r","a","c","t","o","r","s","/","p","d","f","-","f","i","l","e","/">>) THEN keys.PDFLegalEntities
  ELSE IF HasPrefix(path, <<"v","1","/","i","n","d","i","v","i","d","u","a","l","s","/","p","d","f","-","r","e","p","o","r","t","s">>) THEN keys.PDFIndividuals
  ELSE IF HasPrefix(path, <<"v","1","/","a","f","f","i","l","i","a","t","e","s">>) THEN keys.Affiliates
  ELSE keys.DataAnalytics

apiKeyForPath(keys, path) == apiKeyForTrimmed(keys, TrimPrefix(path, <<"/">>))

PathLeads == { <<>>, <<"/">>, <<"/","/">> }

PathStems ==
  { <<>>, <<"v","1","/","c","o","n","t","r","a","c","t","o","r","s","/","p","d","f","-","f","i","l","e">>, <<"v","1","/","i","n","d","i","v","i","d","u","a","l","s","/","p","d","f","-","r","e","p","o","r","t","s">>,
    <<"v","1","/","a","f","f","i","l","i","a","t","e","s">>, <<"v","1","/","i","n","d","i","v","i","d","u","a","l","s">>, <<"v","1","/","u","s","r">>, <<"v","1","/","s","a","n","c","t","i","o","n","s">>,
    <<"v","1","/","r","a","t","e","-","l","i","m","i","t","s">>, <<"v","1","/","c","o","u","r","t">>, <<"V","1","/","a","f","f","i","l","i","a","t","e","s">>, <<"x","/","v","1","/","a","f","f","i","l","i","a","t","e","s">> }

PathTails ==
  { <<>>, <<"/">>, <<"/","0","0","0","3","2","1","1","2">>, <<"/","1","2","3","4","5","6","7","8">>, <<"X">>, <<"/","q","u","e","r","y">>, <<"/","s","o","m","e","-","i","d">>,
    <<"/","s","o","m","e","-","r","e","s","u","l","t","-","i","d">>, <<"/","f","u","l","l","-","n","a","m","e","-","i","n","f","o">>, <<"/","r","e","l","a","t","e","d","-","p","e","r","s","o","n","s">> }

PathInputs == { l \o s \o t : l \in PathLeads, s \in PathStems, t \in PathTails }

InitPath ==
  /\ DoInit
  /\ fnIn \in [keys : {TestKeys, OtherKeys}, path : PathInputs]
  /\ fnOut = NotApplied

ApplyApiKeyForPath ==
  /\ fnOut = NotApplied
  /\ fnOut' = [applied |-> TRUE, key |-> apiKeyForPath(fnIn.keys, fnIn.path)]
  /\ UNCHANGED <<doVars, fnIn>>

NextPath == ApplyApiKeyForPath

SpecPath == InitPath /\ [][NextPath]_vars

\* The path without one leading slash.
Stripped(path) == IF path # <<>> /\ Head(path) = "/" THEN Tail(path) ELSE path

\* The text s is the text p followed by some text.
StartsWith(s, p) == \E n \in 0..Len(s) : s = p \o SubSeq(s, n + 1, Len(s))

\* The paths of TestApiKeyForPath and the key each of them is to get.
TestApiKeyForPathCases ==
  { <<<<"/","v","1","/","u","s","r","/","0","0","0","3","2","1","1","2">>, "DataAnalytics">>,
    <<<<"/","v","1","/","s","a","n","c","t","i","o","n","s">>, "DataAnalytics">>,
    <<<<"/","v","1","/","r","a","t","e","-","l","i","m","i","t","s">>, "DataAnalytics">>,
    <<<<"/","v","1","/","c","o","u","r","t","/","0","0","0","3","2","1","1","2">>, "DataAnalytics">>,
    <<<<"/","v","1","/","c","o","n","t","r","a","c","t","o","r","s","/","p","d","f","-","f","i","l","e","/","0","0","0","3","2","1","1","2">>, "PDFLegalEntities">>,
    <<<<"/","v","1","/","c","o","n","t","r","a","c","t","o","r","s","/","p","d","f","-","f","i","l","e","/","1","2","3","4","5","6","7","8">>, "PDFLegalEntities">>,
    <<<<"/","v","1","/","i","n","d","i","v","i","d","u","a","l","s","/","p","d","f","-","r","e","p","o","r","t","s">>, "PDFIndividuals">>,
    <<<<"/","v","1","/","i","n","d","i","v","i","d","u","a","l","s","/","p","d","f","-","r","e","p","o","r","t","s","/","s","o","m","e","-","r","e","s","u","l","t","-","i","d">>, "PDFIndividuals">>,
    <<<<"/","v","1","/","a","f","f","i","l","i","a","t","e","s","/","q","u","e","r","y">>, "Affiliates">>,
    <<<<"/","v","1","/","a","f","f","i","l","i","a","t","e","s","/","s","o","m","e","-","i","d">>, "Affiliates">>,
    <<<<"/","v","1","/","i","n","d","i","v","i","d","u","a","l","s","/","f","u","l","l","-","n","a","m","e","-","i","n","f","o">>, "DataAnalytics">>,
    <<<<"/","v","1","/","i","n","d","i","v","i","d","u","a","l","s","/","r","e","l","a","t","e","d","-","p","e","r","s","o","n","s">>, "DataAnalytics">> }

\* C10: the key chosen for a path is the one of the first prefix rule that
\* the path without one leading slash matches, the DataAnalytics key when it
\* matches none; the paths of TestApiKeyForPath get the keys the test names.
C10_ApiKeyForPath ==
  fnOut.applied =>
    /\ fnOut.key =
         IF StartsWith(Stripped(fnIn.path), <<"v","1","/","c","o","n","t","r","a","c","t","o","r","s","/","p","d","f","-","f","i","l","e","/">>)
           THEN fnIn.keys.PDFLegalEntities
         ELSE IF StartsWith(Stripped(fnIn.path), <<"v","1","/","i","n","d","i","v","i","d","u","a","l","s","/","p","d","f","-","r","e","p","o","r","t","s">>)
           THEN fnIn.keys.PDFIndividuals
         ELSE IF StartsWith(Stripped(fnIn.path), <<"v","1","/","a","f","f","i","l","i","a","t","e","s">>)
           THEN fnIn.keys.Affiliates
         ELSE fnIn.keys.DataAnalytics
    /\ \A t \in TestApiKeyForPathCases : fnIn.path = t[1] => fnOut.key = fnIn.keys[t[2]]

\* The key for /v1/individuals/full-name-info has been chosen: it is the
\* DataAnalytics key and not the PDFIndividuals key.
C10_Witness ==
  /\ fnOut.applied
  /\ fnIn.path = <<"/","v","1","/","i","n","d","i","v","i","d","u","a","l","s","/","f","u","l","l","-","n","a","m","e","-","i","n","f","o">>
  /\ fnOut.key = fnIn.keys.DataAnalytics
  /\ fnOut.key # fnIn.keys.PDFIndividuals

(***************************************************************************)
(* Usage tracking: the API type of a request path                          *)
(***************************************************************************)

APITypeCustom   == "custom"
APITypeAnalysis == "analysis"
APITypeData     == "data"

\* A first case that lacks the affiliates prefix.
customPrefixesWithoutAffiliates ==
  << <<"v","1","/","c","o","n","t","r","a","c","t","o","r","s","/","p","d","f","-","f","i","l","e","/">>, <<"v","1","/","c","o","n","t","r","a","c","t","o","r","s","P","d","f","/">>, <<"v","1","/","i","n","d","i","v","i","d","u","a","l","s","/","p","d","f","-","r","e","p","o","r","t","s">>,
     <<"v","1","/","i","n","d","i","v","i","d","u","a","l","s","P","d","f","R","e","p","o","r","t","s">>, <<"v","1","/","s","e","t","a","m","/">> >>

\* The prefixes of the first case of aPITypeForPath, in its order.
customPrefixes ==
  << <<"v","1","/","c","o","n","t","r","a","c","t","o","r","s","/","p","d","f","-","f","i","l","e","/">>, <<"v","1","/","c","o","n","t","r","a","c","t","o","r","s","P","d","f","/">>,
     <<"v","1","/","i","n","d","i","v","i","d","u","a","l","s","/","p","d","f","-","r","e","p","o","r","t","s">>, <<"v","1","/","i","n","d","i","v","i","d","u","a","l","s","P","d","f","R","e","p","o","r","t","s">>,
     <<"v","1","/","a","f","f","i","l","i","a","t","e","s">>, <<"v","1","/","s","e","t","a","m","/">> >>

\* The prefixes of its second case, in its order.
analysisPrefixes ==
  << <<"v","1","/","h","i","s","t","o","r","y","/">>, <<"v","1","/","u","s","r","A","d","m","i","n","i","s","t","r","a","t","i","v","e","S","e","r","v","i","c","e","s","R","e","s","u","l","t","s","/">>, <<"v","1","/","u","s","r","D","o","c","u","m","e","n","t","s","/">>,
     <<"v","1","/","e","x","p","r","e","s","s","A","n","a","l","y","s","i","s","/">>, <<"v","1","/","m","a","r","k","e","t","S","c","o","r","i","n","g","/">>, <<"v","1","/","f","i","n","a","n","c","i","a","l","S","c","o","r","i","n","g","/">>,
     <<"v","1","/","i","n","v","e","s","t","i","g","a","t","i","o","n","s","L","e","g","a","l">>, <<"v","1","/","i","n","v","e","s","t","i","g","a","t","i","o","n","s","N","a","t","u","r","a","l">>, <<"v","1","/","f","i","g">>,
     <<"v","1","/","i","n","d","i","v","i","d","u","a","l","s","F","i","g","C","o","m","p","a","n","i","e","s">>, <<"v","1","/","c","o","u","r","t","C","a","s","e","G","r","o","u","p","/">>,
     <<"v","1","/","e","n","c","u","m","b","r","a","n","c","e","s","/","d","e","t","a","i","l","s","/">>, <<"v","1","/","e","n","c","u","m","b","r","a","n","c","e","s","/","r","e","s","u","l","t","d","e","t","a","i","l","s","/">>,
     <<"v","1","/","r","e","a","l","E","s","t","a","t","e","/","d","e","t","a","i","l","s","/">>, <<"v","1","/","r","e","a","l","E","s","t","a","t","e","/","r","e","s","u","l","t","d","e","t","a","i","l","s","/">>,
     <<"v","1","/","t","e","n","d","e","r","s","/","r","i","s","k","s","/">>, <<"v","1","/","s","a","n","c","t","i","o","n","s">> >>

\* One case of the switch: some prefix of the list is a prefix of the path.
hasAnyPrefix(path, prefixes) ==
  \E i \in 1..Len(prefixes) : HasPrefix(path, prefixes[i])

\* An aPITypeForPath that compares without regard to letter case.
aPITypeForTrimmedFolded(path) ==
  IF hasAnyPrefix(ToLower(path), [i \in 1..Len(customPrefixes) |-> ToLower(customPrefixes[i])])
    THEN APITypeCustom
  ELSE IF hasAnyPrefix(ToLower(path), [i \in 1..Len(analysisPrefixes) |-> ToLower(analysisPrefixes[i])])
    THEN APITypeAnalysis
  ELSE APITypeData

\* The switch of aPITypeForPath on the path without its leading slash.
aPITypeForTrimmed(path) ==
  IF hasAnyPrefix(path, customPrefixes) THEN APITypeCustom
  ELSE IF hasAnyPrefix(path, analysisPrefixes) THEN APITypeAnalysis
  ELSE APITypeData

aPITypeForPath(path) == aPITypeForTrimmed(TrimPrefix(path, <<"/">>))

\* The paths aPITypeForPath is applied to: every prefix of its two cases
\* without its last slash, and some paths of neither case, each after no, one
\* or two slashes and followed by nothing, a slash, a segment or a letter.
TypeStems ==
  { IF HasSuffix(p, <<"/">>) THEN SubSeq(p, 1, Len(p) - 1) ELSE p :
      p \in {customPrefixes[i] : i \in 1..Len(customPrefixes)}
              \cup {analysisPrefixes[i] : i \in 1..Len(analysisPrefixes)} }
    \cup { <<>>, <<"v","1","/","u","s","r">>, <<"v","1","/","i","n","d","i","v","i","d","u","a","l","s">>, <<"V","1","/","s","a","n","c","t","i","o","n","s">>, <<"v","1","/","A","f","f","i","l","i","a","t","e","s">>,
           <<"x","/","v","1","/","a","f","f","i","l","i","a","t","e","s">>, <<"v","1","/","r","a","t","e","L","i","m","i","t","s">> }

TypeTails == { <<>>, <<"/">>, <<"/","0","0","0","3","2","1","1","2">>, <<"/","q","u","e","r","y">>, <<"X">> }

TypeInputs == { l \o s \o t : l \in PathLeads, s \in TypeStems, t \in TypeTails }

InitType ==
  /\ DoInit
  /\ fnIn \in TypeInputs
  /\ fnOut = NotApplied

ApplyAPITypeForPath ==
  /\ fnOut = NotApplied
  /\ fnOut' = [applied |-> TRUE, type |-> aPITypeForPath(fnIn)]
  /\ UNCHANGED <<doVars, fnIn>>

NextType == ApplyAPITypeForPath

SpecType == InitType /\ [][NextType]_vars

\* The prefixes that are to give custom and those that are to give analysis.
CustomRules ==
  { <<"v","1","/","c","o","n","t","r","a","c","t","o","r","s","/","p","d","f","-","f","i","l","e","/">>, <<"v","1","/","c","o","n","t","r","a","c","t","o","r","s","P","d","f","/">>, <<"v","1","/","i","n","d","i","v","i","d","u","a","l","s","/","p","d","f","-","r","e","p","o","r","t","s">>,
    <<"v","1","/","i","n","d","i","v","i","d","u","a","l","s","P","d","f","R","e","p","o","r","t","s">>, <<"v","1","/","a","f","f","i","l","i","a","t","e","s">>, <<"v","1","/","s","e","t","a","m","/">> }

AnalysisRules ==
  { <<"v","1","/","h","i","s","t","o","r","y","/">>, <<"v","1","/","u","s","r","A","d","m","i","n","i","s","t","r","a","t","i","v","e","S","e","r","v","i","c","e","s","R","e","s","u","l","t","s","/">>, <<"v","1","/","u","s","r","D","o","c","u","m","e","n","t","s","/">>,
    <<"v","1","/","e","x","p","r","e","s","s","A","n","a","l","y","s","i","s","/">>, <<"v","1","/","m","a","r","k","e","t","S","c","o","r","i","n","g","/">>, <<"v","1","/","f","i","n","a","n","c","i","a","l","S","c","o","r","i","n","g","/">>,
    <<"v","1","/","i","n","v","e","s","t","i","g","a","t","i","o","n","s","L","e","g","a","l">>, <<"v","1","/","i","n","v","e","s","t","i","g","a","t","i","o","n","s","N","a","t","u","r","a","l">>, <<"v","1","/","f","i","g">>,
    <<"v","1","/","i","n","d","i","v","i","d","u","a","l","s","F","i","g","C","o","m","p","a","n","i","e","s">>, <<"v","1","/","c","o","u","r","t","C","a","s","e","G","r","o","u","p","/">>, <<"v","1","/","e","n","c","u","m","b","r","a","n","c","e","s","/","d","e","t","a","i","l","s","/">>,
    <<"v","1","/","e","n","c","u","m","b","r","a","n","c","e","s","/","r","e","s","u","l","t","d","e","t","a","i","l","s","/">>, <<"v","1","/","r","e","a","l","E","s","t","a","t","e","/","d","e","t","a","i","l","s","/">>,
    <<"v","1","/","r","e","a","l","E","s","t","a","t","e","/","r","e","s","u","l","t","d","e","t","a","i","l","s","/">>, <<"v","1","/","t","e","n","d","e","r","s","/","r","i","s","k","s","/">>, <<"v","1","/","s","a","n","c","t","i","o","n","s">> }

\* C12: the type of a path is custom when the path without one leading slash
\* starts with a custom prefix, else analysis when it starts with an analysis
\* prefix, else data, letter case counting; /v1/sanctions is analysis,
\* /v1/affiliates/query is custom and /v1/usr/00032112 is data.
C12_APITypeForPath ==
  fnOut.applied =>
    /\ fnOut.type =
         IF \E p \in CustomRules : StartsWith(Stripped(fnIn), p) THEN "custom"
         ELSE IF \E p \in AnalysisRules : StartsWith(Stripped(fnIn), p) THEN "analysis"
         ELSE "data"
    /\ fnIn = <<"/","v","1","/","s","a","n","c","t","i","o","n","s">> => fnOut.type = "analysis"
    /\ fnIn = <<"/","v","1","/","a","f","f","i","l","i","a","t","e","s","/","q","u","e","r","y">> => fnOut.type = "custom"
    /\ fnIn = <<"/","v","1","/","u","s","r","/","0","0","0","3","2","1","1","2">> => fnOut.type = "data"
    /\ fnIn \in { <<"/","V","1","/","s","a","n","c","t","i","o","n","s">>, <<"/","v","1","/","A","f","f","i","l","i","a","t","e","s","/","q","u","e","r","y">>, <<"/","/","v","1","/","s","a","n","c","t","i","o","n","s">> }
         => fnOut.type = "data"

\* The path /v1/sanctions has been classified: it is an analysis path.
C12_Witness ==
  /\ fnOut.applied
  /\ fnIn = <<"/","v","1","/","s","a","n","c","t","i","o","n","s">>
  /\ fnOut.type = "analysis"

(***************************************************************************)
(* Request editors: WithBearerAuth, WithAPIKeys, WithUsageTracking         *)
(***************************************************************************)

\* A request header holds, under its canonical name, a list of values.
\* What an editor gives back: the request as it left it, whether it failed,
\* and the calls of the usage callback it made.
Edited(r, made) == [req |-> r, err |-> FALSE, calls |-> made]

\* A bearer editor that leaves the request no header but Authorization.
bearerAuthEditorAlone(apiKey, r) ==
  Edited([r EXCEPT !.Header = [h \in DOMAIN r.Header |->
                                 IF h = "Authorization" THEN << <<"b","e","a","r","e","r"," ">> \o apiKey >>
                                 ELSE <<>>]], <<>>)

\* The editor of WithBearerAuth: Header.Set replaces the values of the header.
bearerAuthEditor(apiKey, r) ==
  Edited([r EXCEPT !.Header.Authorization = << <<"b","e","a","r","e","r"," ">> \o apiKey >>], <<>>)

\* An editor of WithAPIKeys that adds its value to the header's values.
apiKeysEditorAdds(keys, r) ==
  Edited([r EXCEPT !.Header.Authorization =
            Append(@, <<"b","e","a","r","e","r"," ">> \o apiKeyForPath(keys, r.URL.Path))], <<>>)

\* The editor of WithAPIKeys.
apiKeysEditor(keys, r) ==
  Edited([r EXCEPT !.Header.Authorization =
            << <<"b","e","a","r","e","r"," ">> \o apiKeyForPath(keys, r.URL.Path) >>], <<>>)

\* One call of usageFn.
UsageCall(ctx, apiType, path) == [ctx |-> ctx, apiType |-> apiType, path |-> path]

\* A usage editor that reports the path as the request has it.
usageEditorUncut(ctx, r) ==
  Edited(r, << UsageCall(ctx, aPITypeForPath(r.URL.Path), r.URL.Path) >>)

\* A usage editor that does not report the requests of type data.
usageEditorSkipsData(ctx, r, path) ==
  Edited(r, IF aPITypeForPath(path) = APITypeData THEN <<>>
            ELSE << UsageCall(ctx, aPITypeForPath(path), path) >>)

\* The editor of WithUsageTracking, with the path cut at its first "?".
usageEditorOn(ctx, r, path) ==
  Edited(r, << UsageCall(ctx, aPITypeForPath(path), path) >>)

usageEditor(ctx, r) == usageEditorOn(ctx, r, Cut(r.URL.Path, <<"?">>).before)

\* The editors a client option registers.
BearerAuth(apiKey) == [kind |-> "bearer", key |-> apiKey, keys |-> TestKeys]
WithKeys(keys)     == [kind |-> "keys",   key |-> <<>>,   keys |-> keys]
UsageTracking      == [kind |-> "usage",  key |-> <<>>,   keys |-> TestKeys]

\* The call of one registered editor.
runEditor(e, ctx, r) ==
  IF e.kind = "bearer" THEN bearerAuthEditor(e.key, r)
  ELSE IF e.kind = "keys" THEN apiKeysEditor(e.keys, r)
  ELSE usageEditor(ctx, r)

\* The client's chain of editors: they run in the order of their
\* registration, each on the request as the one before left it, up to the
\* first that fails.
chainStep(st, out) ==
  [req |-> out.req, err |-> out.err, calls |-> st.calls \o out.calls]

RECURSIVE applyFrom(_, _, _, _)
applyFrom(editors, i, ctx, st) ==
  IF i > Len(editors) \/ st.err THEN st
  ELSE applyFrom(editors, i + 1, ctx, chainStep(st, runEditor(editors[i], ctx, st.req)))

applyEditors(editors, ctx, r) == applyFrom(editors, 1, ctx, Edited(r, <<>>))

(***************************************************************************)
(* The editors as a function: a chain is applied to one request            *)
(***************************************************************************)

\* The most editors a client has.
MaxEditors == 2

EditEditors == { BearerAuth(<<"k","1">>), BearerAuth(<<"k","2">>), WithKeys(TestKeys), UsageTracking }

EditChains == UNION { [1..n -> EditEditors] : n \in 0..MaxEditors }

\* The Authorization values a request carries before the editors run.
EditAuths == { <<>>, << <<"b","e","a","r","e","r"," ","o","l","d">> >>, << <<"B","a","s","i","c"," ","x">>, <<"b","e","a","r","e","r"," ","y">> >> }

\* The paths of the requests; the last is the path of /v1/usr/a%3Fb.
EditPaths ==
  { PathUsr, PathAffiliates, PathRateLimits, <<"/","v","1","/","c","o","n","t","r","a","c","t","o","r","s","/","p","d","f","-","f","i","l","e","/","1">>,
    <<"/","v","1","/","s","a","n","c","t","i","o","n","s">>, <<"/","v","1","/","u","s","r","/","a","?","b">> }

EditRequest(method, path, auths, body) ==
  [Method |-> method,
   URL    |-> [Parse(ServerURL).url EXCEPT !.Path = path],
   Header |-> [Authorization |-> auths],
   Body   |-> body]

EditRequests ==
  { EditRequest(GET, p, a, NoBody) : p \in EditPaths, a \in EditAuths }
    \cup { EditRequest(POST, p, a, NewReader(<<"{","}">>)) : p \in EditPaths, a \in EditAuths }

InitEdit ==
  /\ DoInit
  /\ fnIn \in [editors : EditChains, ctx : {"ctx1", "ctx2"}, req : EditRequests]
  /\ fnOut = NotApplied

ApplyEditors ==
  /\ fnOut = NotApplied
  /\ fnOut' = [applied |-> TRUE, out |-> applyEditors(fnIn.editors, fnIn.ctx, fnIn.req)]
  /\ UNCHANGED <<doVars, fnIn>>

NextEdit == ApplyEditors

SpecEdit == InitEdit /\ [][NextEdit]_vars

\* The places of the auth editors and of the usage editors in a chain.
AuthPlaces(editors)  == {i \in 1..Len(editors) : editors[i].kind \in {"bearer", "keys"}}
UsagePlaces(editors) == {i \in 1..Len(editors) : editors[i].kind = "usage"}

LastPlace(places) == CHOOSE i \in places : \A j \in places : j <= i

\* The key the prefix rules select for a path.
SelectedKey(keys, path) ==
  IF StartsWith(Stripped(path), <<"v","1","/","c","o","n","t","r","a","c","t","o","r","s","/","p","d","f","-","f","i","l","e","/">>) THEN keys.PDFLegalEntities
  ELSE IF StartsWith(Stripped(path), <<"v","1","/","i","n","d","i","v","i","d","u","a","l","s","/","p","d","f","-","r","e","p","o","r","t","s">>) THEN keys.PDFIndividuals
  ELSE IF StartsWith(Stripped(path), <<"v","1","/","a","f","f","i","l","i","a","t","e","s">>) THEN keys.Affiliates
  ELSE keys.DataAnalytics

\* The key an auth editor is to put on a request with this path.
EditorKey(e, path) == IF e.kind = "bearer" THEN e.key ELSE SelectedKey(e.keys, path)

\* C11: after a chain with an auth editor has run, the request has exactly
\* one Authorization value, "bearer " followed by the key of the auth editor
\* registered last, whatever values it carried before.
C11_AuthorizationSet ==
  (fnOut.applied /\ AuthPlaces(fnIn.editors) # {})
    => fnOut.out.req.Header.Authorization =
         << <<"b","e","a","r","e","r"," ">>
              \o EditorKey(fnIn.editors[LastPlace(AuthPlaces(fnIn.editors))],
                           fnIn.req.URL.Path) >>

\* A request for an affiliates path that carried two Authorization values
\* has passed WithBearerAuth and then WithAPIKeys: it has the affiliates key.
C11_Witness ==
  /\ fnOut.applied
  /\ fnIn.editors = << BearerAuth(<<"k","1">>), WithKeys(TestKeys) >>
  /\ Len(fnIn.req.Header.Authorization) = 2
  /\ fnIn.req.URL.Path = PathAffiliates
  /\ fnOut.out.req.Header.Authorization = << <<"b","e","a","r","e","r"," ","a","f","f","-","k","e","y">> >>

\* The text of a path before its first "?".
BeforeQuery(p) ==
  SubSeq(p, 1, CHOOSE n \in 0..Len(p) :
                 /\ \A i \in 1..n : p[i] # "?"
                 /\ n = Len(p) \/ p[n + 1] = "?")

\* The category the prefix rules give a path.
Category(path) ==
  IF \E p \in CustomRules : StartsWith(Stripped(path), p) THEN "custom"
  ELSE IF \E p \in AnalysisRules : StartsWith(Stripped(path), p) THEN "analysis"
  ELSE "data"

ClientEditors == << WithKeys(TestKeys), UsageTracking >>

\* The requests of the client's operations, as built before the editors run.
ClientRequests ==
  { EditRequest(GET,  PathUsr, <<>>, NoBody),
    EditRequest(GET,  PathRateLimits, <<>>, NoBody),
    EditRequest(POST, PathAffiliates, <<>>, NewReader(<<"{","}">>)),
    EditRequest(POST, PathAffiliates, <<>>, FailingReader(<<"{","}">>)) }

\* One operation of the client: the editors run on the request, then the
\* request is handed to the client's HttpRequestDoer, which is the
\* cachingDoer; ed is the outcome of the editors.
ClientKeyError(c, ed) ==
  /\ ~ ed.err
  /\ DoKeyError(c, ed.req)
  /\ usage' = usage \o ed.calls

ClientHit(c, ed) ==
  /\ ~ ed.err
  /\ DoHit(c, ed.req)
  /\ usage' = usage \o ed.calls

ClientMiss(c, ed) ==
  /\ ~ ed.err
  /\ DoMiss(c, ed.req)
  /\ usage' = usage \o ed.calls

NextClient ==
  \E c \in Callers :
    \/ \E r \in ClientRequests : ClientKeyError(c, applyEditors(ClientEditors, "ctx", r))
    \/ \E r \in ClientRequests : ClientHit(c, applyEditors(ClientEditors, "ctx", r))
    \/ \E r \in ClientRequests : ClientMiss(c, applyEditors(ClientEditors, "ctx", r))
    \/ DoTransportError(c)
    \/ DoTransportOK(c)
    \/ DoReadError(c)
    \/ DoStore(c)
    \/ DoSkip(c)

SpecClient == Init /\ [][NextClient]_vars

\* C14: the usage callback has been called once for every request issued,
\* be it answered from the cache or by the transport, and the request Do was
\* handed had passed the editors.
C14_UsageCountsEveryRequest ==
  /\ Len(usage) = issued
  /\ calls <= issued
  /\ \A c \in Callers :
       pc[c] # "idle" =>
         /\ Len(orig[c].Header.Authorization) = 1
         /\ \E i \in 1..Len(usage) : usage[i].path = orig[c].URL.Path

\* Two requests have been issued and answered, the second from the cache:
\* one call of the transport, two calls of the usage callback.
C14_Witness ==
  /\ issued = 2 /\ calls = 1 /\ Len(usage) = 2
  /\ \A c \in Callers : Returned(c)
  /\ \E c \in Callers : result[c].hit

(***************************************************************************)
(* Errors in cachingDoer.Do                                                *)
(***************************************************************************)

\* The step in which the wrapped transport answers caller c with an error:
\* no other step takes a call from its dispatch to its return.
TransportFails(c) == pc[c] = "dispatch" /\ pc'[c] = "returned"

\* C15: when the wrapped transport fails, Do returns the transport's error
\* and no response, the transport has been called once, and neither that
\* step nor the call as a whole has written to the cache.
C15_TransportErrorPassedOn ==
  [][\A c \in Callers :
       TransportFails(c) =>
         /\ result'[c].err = "transport"
         /\ result'[c].resp = NoResponse
         /\ ~ result'[c].hit
         /\ store' = store
         /\ calls' = calls + 1
         /\ Len(trace'[c]) = 2
         /\ trace'[c][1].op = "Get"
         /\ trace'[c][2] = DoEvent(req[c])]_vars

\* A call has returned the transport's error while the cache holds the entry
\* another call has stored.
C15_Witness ==
  \E c \in Callers :
    /\ Returned(c)
    /\ result[c].err = "transport"
    /\ ReachedTransport(c)
    /\ DOMAIN store # {}

\* C16: a call of Do with a request whose body cannot be read to its end
\* returns the read error and no response, and has called neither Cache.Get,
\* nor the wrapped transport, nor Cache.Set.
C16_BodyReadErrorAborts ==
  \A c \in Callers :
    (pc[c] # "idle" /\ orig[c].Body.bad)
      => /\ Returned(c)
         /\ result[c].err = "read request body"
         /\ result[c].resp = NoResponse
         /\ ~ result[c].hit
         /\ trace[c] = <<>>

\* Every call made so far had an unreadable body: all have returned, the
\* transport has not been called and the cache is empty.
C16_Witness ==
  /\ issued = 2
  /\ \A c \in Callers : pc[c] = "returned" /\ orig[c].Body.bad
  /\ calls = 0
  /\ DOMAIN store = {}

\* The header maps the cache holds.
StoredHeaders == {store[k].Header.ref : k \in DOMAIN store}

\* C17: after Cache.Get has reported not-found, what Do returns is what the
\* wrapped transport gave for the request: its error, or the error of reading
\* its body, or its status code, its header map and all of its body bytes;
\* the header map returned is not one the cache holds, whatever the cache has
\* stored under this and other keys.
C17_MissReturnsTransportOutcome ==
  \A c \in Callers :
    (Returned(c) /\ trace[c] # <<>> /\ ~ result[c].hit)
      => /\ Cardinality({i \in 1..Len(trace[c]) : trace[c][i].op = "Do"}) = 1
         /\ resp[c] = NoResponse =>
              result[c].err = "transport" /\ result[c].resp = NoResponse
         /\ (resp[c] # NoResponse /\ resp[c].Body.bad) =>
              result[c].err = "read response body"
         /\ (resp[c] # NoResponse /\ ~ resp[c].Body.bad) =>
              /\ result[c].err = "none"
              /\ result[c].resp.StatusCode = resp[c].StatusCode
              /\ result[c].resp.Header = resp[c].Header
              /\ result[c].resp.Body.pos = 0
              /\ ReadAll(result[c].resp.Body).bytes = resp[c].Body.data
              /\ ~ ReadAll(result[c].resp.Body).err
              /\ result[c].resp.Header.ref \notin StoredHeaders

\* A call has missed and returned the transport's response while the cache
\* held an entry under another key.
C17_Witness ==
  \E c \in Callers :
    /\ Returned(c) /\ ~ result[c].hit /\ result[c].err = "none"
    /\ result[c].resp.StatusCode = 500
    /\ \E k \in DOMAIN store : k # key[c] /\ store[k].StatusCode = 200

\* Whether the record of a call holds a call of the given kind.
Made(c, op) == \E i \in 1..Len(trace[c]) : trace[c][i].op = op

\* C18 (as claimed): every request handed to Do, its body readable, results
\* in a Cache.Get, and every response received in full from the transport
\* results in a Cache.Set.
C18_EveryRequestReachesCache ==
  \A c \in Callers :
    (Returned(c) /\ ~ orig[c].Body.bad) =>
      /\ Made(c, "Get")
      /\ (Made(c, "Do") /\ resp[c] # NoResponse /\ ~ resp[c].Body.bad) => Made(c, "Set")

\* What holds of the requests that are not for a rate-limit URL and whose
\* body can be read: each results in a Cache.Get, and each response received
\* in full results in a Cache.Set.
CacheableRequestsReachCache ==
  \A c \in Callers :
    (Returned(c) /\ ~ orig[c].Body.bad /\ ~ Contains(String(orig[c].URL), <<"/","r","a","t","e","L","i","m","i","t","s">>))
      => /\ Made(c, "Get")
         /\ (Made(c, "Do") /\ resp[c] # NoResponse /\ ~ resp[c].Body.bad) => Made(c, "Set")


(***************************************************************************)
(* CheckRateLimits                                                         *)
(***************************************************************************)

\* The credentials in the order CheckRateLimits asks for their limits, and
\* the text its error has for each.
Credentials == << "DataAnalytics", "PDFLegalEntities", "PDFIndividuals", "Affiliates" >>

CredentialLabel ==
  [DataAnalytics    |-> "get data analytics key limit",
   PDFLegalEntities |-> "get pdf legal entities key limit",
   PDFIndividuals   |-> "get pdf individuals key limit",
   Affiliates       |-> "get affiliates key limit"]

\* An error is the chain of its texts, outermost first; nil is the empty chain.
NoError == <<>>
Wrap(text, err) == << text >> \o err

\* A *RateLimits: nil, or the limits decoded from a response body.
NilLimits == [nil |-> TRUE, RequestsLeft |-> 0]
Limits(left) == [nil |-> FALSE, RequestsLeft |-> left]

\* json.Unmarshal of a response body into a RateLimits.
Unmarshal(body) ==
  IF body = "{\"requestsLeft\":5}" THEN [err |-> NoError, limits |-> Limits(5)]
  ELSE IF body = "{\"requestsLeft\":0}" THEN [err |-> NoError, limits |-> Limits(0)]
  ELSE [err |-> << "invalid character '<' looking for beginning of value" >>, limits |-> Limits(0)]

\* Keys that hold apiKey as the affiliates credential.
FallbackKeysAffiliates(apiKey) ==
  [DataAnalytics |-> <<>>, PDFLegalEntities |-> <<>>, PDFIndividuals |-> <<>>, Affiliates |-> apiKey]

\* The keys of the client getLimit builds: apiKey is its fallback credential.
FallbackKeys(apiKey) ==
  [DataAnalytics |-> apiKey, PDFLegalEntities |-> <<>>, PDFIndividuals |-> <<>>, Affiliates |-> <<>>]

\* The request GetV1RateLimitsWithResponse sends through a client built with
\* WithAPIKeys(keys).
rateLimitsQuery(ctx, keys) ==
  [ctx |-> ctx,
   req |-> applyEditors(<< WithKeys(keys) >>, ctx,
                        EditRequest(GET, PathRateLimits, <<>>, NoBody)).req]

\* What getLimit gives back, with the queries it sent.
GotLimit(limits, err, queries) == [limits |-> limits, err |-> err, queries |-> queries]

BadStatus(code) == << "bad status: " \o ToString(code) >>

gotLimitDecoded(dec, queries) ==
  IF dec.err # NoError THEN GotLimit(NilLimits, Wrap("unmarshal", dec.err), queries)
  ELSE GotLimit(dec.limits, NoError, queries)

gotLimitAnswer(env, queries) ==
  IF env.doErr # NoError THEN GotLimit(NilLimits, env.doErr, queries)
  ELSE IF env.status # 200 THEN GotLimit(NilLimits, BadStatus(env.status), queries)
  ELSE gotLimitDecoded(Unmarshal(env.body), queries)

\* A getLimit that asks for the limits of a blank key as well.
getLimitAsksBlank(ctx, apiKey, env) ==
  IF env.newClient # NoError
  THEN GotLimit(NilLimits, Wrap("new client", env.newClient), <<>>)
  ELSE gotLimitAnswer(env, << rateLimitsQuery(ctx, FallbackKeys(apiKey)) >>)

\* getLimit; env is what client construction and the operation come to.
getLimit(ctx, apiKey, env) ==
  IF apiKey = <<>> THEN GotLimit(NilLimits, NoError, <<>>)
  ELSE IF env.newClient # NoError
  THEN GotLimit(NilLimits, Wrap("new client", env.newClient), <<>>)
  ELSE gotLimitAnswer(env, << rateLimitsQuery(ctx, FallbackKeys(apiKey)) >>)

\* A *RateLimitsResponse.
NilResponse == [nil |-> TRUE, limits |-> [n \in {} |-> NilLimits]]
RateLimitsResponse(limits) == [nil |-> FALSE, limits |-> limits]

Tagged(name, queries) == [i \in 1..Len(queries) |-> [cred |-> name, query |-> queries[i]]]

\* A CheckRateLimits that goes on to the next credential after a failure.
CheckRateLimitsGoesOn(st, name, got) ==
  [st EXCEPT !.at = @ + 1,
             !.queries = @ \o Tagged(name, got.queries),
             !.limits[name] = got.limits]

\* CheckRateLimits after one call of getLimit, for the credential name.
CheckRateLimitsNext(st, name, got) ==
  IF got.err # NoError
  THEN [st EXCEPT !.applied = TRUE,
                  !.queries = @ \o Tagged(name, got.queries),
                  !.result = NilResponse,
                  !.err = Wrap(CredentialLabel[name], got.err)]
  ELSE [st EXCEPT !.at = @ + 1,
                  !.queries = @ \o Tagged(name, got.queries),
                  !.limits[name] = got.limits]

\* ---- the specification of CheckRateLimits ----

LimitKeyValues == { <<>>, <<"k","1">>, <<"k","2">> }
LimitKeys ==
  [DataAnalytics : LimitKeyValues, PDFLegalEntities : LimitKeyValues,
   PDFIndividuals : LimitKeyValues, Affiliates : LimitKeyValues]

LimitBodies == { "{\"requestsLeft\":5}", "{\"requestsLeft\":0}", "<html>" }
LimitStatuses == { 200, 401 }

\* What the environment makes of one client: its construction fails, its
\* request fails, or it is answered.
ClientOutcomes ==
  { [newClient |-> << "parse server url" >>, doErr |-> NoError, status |-> 0, body |-> ""],
    [newClient |-> NoError, doErr |-> << "dial tcp: i/o timeout" >>, status |-> 0, body |-> ""] }
    \cup { [newClient |-> NoError, doErr |-> NoError, status |-> s, body |-> b] :
             s \in LimitStatuses, b \in LimitBodies }

InitLimits ==
  /\ DoInit
  /\ fnIn \in [ctx : {"ctx1"}, keys : LimitKeys]
  /\ fnOut = [applied |-> FALSE, at |-> 1, queries |-> <<>>, served |-> <<>>,
              limits |-> [n \in { Credentials[i] : i \in 1..Len(Credentials) } |-> NilLimits],
              result |-> NilResponse, err |-> NoError]

Asked(st, name, env) == [st EXCEPT !.served = Append(@, [cred |-> name, env |-> env])]

\* One call of getLimit and the test of its error.
CallGetLimit ==
  /\ ~ fnOut.applied
  /\ fnOut.at <= Len(Credentials)
  /\ \E env \in ClientOutcomes :
       fnOut' = Asked(CheckRateLimitsNext(fnOut, Credentials[fnOut.at],
                        getLimit(fnIn.ctx, fnIn.keys[Credentials[fnOut.at]], env)),
                      Credentials[fnOut.at], env)
  /\ UNCHANGED <<doVars, fnIn>>

\* The return of the four limits.
ReturnLimits ==
  /\ ~ fnOut.applied
  /\ fnOut.at > Len(Credentials)
  /\ fnOut' = [fnOut EXCEPT !.applied = TRUE, !.result = RateLimitsResponse(fnOut.limits)]
  /\ UNCHANGED <<doVars, fnIn>>

NextLimits == CallGetLimit \/ ReturnLimits

SpecLimits == InitLimits /\ [][NextLimits]_vars

\* ---- claims about CheckRateLimits ----

CredentialNames == { Credentials[i] : i \in 1..Len(Credentials) }
Position(name) == CHOOSE i \in 1..Len(Credentials) : Credentials[i] = name

\* The queries sent for the credential name.
QueriesFor(name) == { i \in 1..Len(fnOut.queries) : fnOut.queries[i].cred = name }

\* A query for name carries that credential, to the rate-limit endpoint.
CarriesCredential(name) ==
  \A i \in QueriesFor(name) :
    /\ fnOut.queries[i].query.req.Header.Authorization = << <<"b","e","a","r","e","r"," ">> \o fnIn.keys[name] >>
    /\ fnOut.queries[i].query.req.URL.Path = PathRateLimits
    /\ fnOut.queries[i].query.req.Method = GET

LimitsSucceeded == fnOut.applied /\ fnOut.err = NoError
LimitsFailed    == fnOut.applied /\ fnOut.err # NoError

\* C19 (as claimed): whenever CheckRateLimits has returned, it has sent
\* exactly one rate-limit query for each non-empty credential and none for an
\* empty one, and on success its result has a non-nil entry for exactly the
\* non-empty credentials.
C19_OneQueryPerCredential ==
  fnOut.applied =>
    \A name \in CredentialNames :
      /\ Cardinality(QueriesFor(name)) = IF fnIn.keys[name] = <<>> THEN 0 ELSE 1
      /\ LimitsSucceeded => (fnOut.result.limits[name].nil <=> fnIn.keys[name] = <<>>)

\* C19 (amended): at any time CheckRateLimits has sent no query for an empty
\* credential and at most one, carrying that credential, for a non-empty one;
\* when it returns without error it has sent exactly one for each non-empty
\* credential, and its result is non-nil with a non-nil entry for exactly the
\* non-empty credentials.
C19_OneQueryPerCredentialOnSuccess ==
  /\ \A name \in CredentialNames :
       /\ Cardinality(QueriesFor(name)) <= IF fnIn.keys[name] = <<>> THEN 0 ELSE 1
       /\ CarriesCredential(name)
  /\ LimitsSucceeded =>
       /\ ~ fnOut.result.nil
       /\ \A name \in CredentialNames :
            /\ Cardinality(QueriesFor(name)) = IF fnIn.keys[name] = <<>> THEN 0 ELSE 1
            /\ fnOut.result.limits[name].nil <=> fnIn.keys[name] = <<>>

C19_Witness ==
  /\ LimitsSucceeded
  /\ fnIn.keys = [DataAnalytics |-> <<>>, PDFLegalEntities |-> <<"k","1">>,
                  PDFIndividuals |-> <<>>, Affiliates |-> <<"k","2">>]
  /\ Len(fnOut.queries) = 2
  /\ fnOut.queries[1].cred = "PDFLegalEntities"
  /\ fnOut.queries[2].query.req.Header.Authorization = << <<"b","e","a","r","e","r"," ","k","2">> >>
  /\ fnOut.result.limits["DataAnalytics"] = NilLimits
  /\ fnOut.result.limits["Affiliates"] = Limits(5)

\* The failure, if any, of what the environment made of one client.
CauseOf(env) ==
  IF env.newClient # NoError THEN env.newClient
  ELSE IF env.doErr # NoError THEN env.doErr
  ELSE IF env.status # 200 THEN BadStatus(env.status)
  ELSE Unmarshal(env.body).err

\* The i-th call of getLimit was for a non-empty credential and failed.
FailedAt(i) ==
  /\ fnIn.keys[fnOut.served[i].cred] # <<>>
  /\ CauseOf(fnOut.served[i].env) # NoError

Wraps(err, cause) ==
  Len(err) >= Len(cause) /\ SubSeq(err, Len(err) - Len(cause) + 1, Len(err)) = cause

\* C20: when the query of a credential fails (its client cannot be built, its
\* request fails, its status is not 200 or its body cannot be decoded),
\* CheckRateLimits returns at once a nil result and an error that starts with
\* the text of that credential and wraps the cause; the queries are sent in
\* the order DataAnalytics, PDFLegalEntities, PDFIndividuals, Affiliates, and
\* none is sent for a credential after the failing one.
C20_FailureAborts ==
  /\ \A i \in 1..Len(fnOut.served) :
       FailedAt(i) =>
         /\ i = Len(fnOut.served)
         /\ LimitsFailed
         /\ fnOut.result.nil
         /\ fnOut.err[1] = CredentialLabel[fnOut.served[i].cred]
         /\ Wraps(fnOut.err, CauseOf(fnOut.served[i].env))
         /\ \A q \in 1..Len(fnOut.queries) :
              Position(fnOut.queries[q].cred) <= Position(fnOut.served[i].cred)
  /\ \A i \in 1..Len(fnOut.served) : fnOut.served[i].cred = Credentials[i]
  /\ \A q, p \in 1..Len(fnOut.queries) :
       q < p => Position(fnOut.queries[q].cred) < Position(fnOut.queries[p].cred)

C20_Witness ==
  /\ LimitsFailed
  /\ fnIn.keys = [DataAnalytics |-> <<"k","1">>, PDFLegalEntities |-> <<"k","2">>,
                  PDFIndividuals |-> <<"k","1">>, Affiliates |-> <<>>]
  /\ fnOut.err = << "get pdf legal entities key limit", "bad status: 401" >>
  /\ Len(fnOut.queries) = 2
  /\ fnOut.queries[2].cred = "PDFLegalEntities"
  /\ fnOut.result = NilResponse

\* C29: every query CheckRateLimits has sent for a credential is a GET of the
\* rate-limit path with the one Authorization value "bearer " followed by
\* that credential, which is not empty: the path selects the DataAnalytics
\* key of the keys its client was built with, and that key is the credential.
C29_QueryCarriesOwnCredential ==
  \A q \in 1..Len(fnOut.queries) :
    /\ fnIn.keys[fnOut.queries[q].cred] # <<>>
    /\ fnOut.queries[q].query.req.Header.Authorization =
         << <<"b","e","a","r","e","r"," ">> \o fnIn.keys[fnOut.queries[q].cred] >>
    /\ fnOut.queries[q].query.req.Header.Authorization # << <<"b","e","a","r","e","r"," ">> >>
    /\ fnOut.queries[q].query.req.Method = GET
    /\ fnOut.queries[q].query.req.URL.Path = PathRateLimits
    /\ SelectedKey(FallbackKeys(fnIn.keys[fnOut.queries[q].cred]), PathRateLimits) =
         fnIn.keys[fnOut.queries[q].cred]

\* All four credentials are set and have been asked for: the queries for the
\* PDF and affiliates credentials carry their own keys.
C29_Witness ==
  /\ LimitsSucceeded
  /\ fnIn.keys = [DataAnalytics |-> <<"k","1">>, PDFLegalEntities |-> <<"k","2">>,
                  PDFIndividuals |-> <<"k","2">>, Affiliates |-> <<"k","1">>]
  /\ Len(fnOut.queries) = 4
  /\ fnOut.queries[2].cred = "PDFLegalEntities"
  /\ fnOut.queries[2].query.req.Header.Authorization = << <<"b","e","a","r","e","r"," ","k","2">> >>
  /\ fnOut.queries[4].cred = "Affiliates"
  /\ fnOut.queries[4].query.req.Header.Authorization = << <<"b","e","a","r","e","r"," ","k","1">> >>

(***************************************************************************)
(* Concurrent calls of cachingDoer.Do for one request                      *)
(***************************************************************************)

\* Requests with one method, URL and body, sent with either credential, and
\* one other request.
SameRequests ==
  { NewRequest(GET,  PathUsr, <<>>, <<"b","e","a","r","e","r"," ","k","1">>, NoBody),
    NewRequest(GET,  PathUsr, <<>>, <<"b","e","a","r","e","r"," ","k","2">>, NoBody),
    NewRequest(POST, PathAffiliates, <<>>, <<"b","e","a","r","e","r"," ","k","1">>, NewReader(<<"{","}">>)) }

NextSame ==
  \E c \in Callers :
    \/ \E r \in SameRequests : DoHit(c, r) /\ UNCHANGED usage
    \/ \E r \in SameRequests : DoMiss(c, r) /\ UNCHANGED usage
    \/ DoTransportError(c)
    \/ DoTransportOK(c)
    \/ DoReadError(c)
    \/ DoStore(c)

SpecSame == Init /\ [][NextSame]_vars

\* Every caller has made one call of Do, all for one method, URL and body,
\* and all calls have returned.
AllSameDone ==
  /\ issued = NumCallers
  /\ \A c \in Callers : Returned(c)
  /\ \A c, d \in Callers : Triple(orig[c]) = Triple(orig[d])

\* The response a call returned holds a status and an unread, open body with
\* all bytes the transport or the cache gave for it.
CompleteResponse(c) ==
  /\ result[c].resp.StatusCode \in {o.StatusCode : o \in TransportOutcomes} \ {0}
  /\ result[c].resp.Body.pos = 0
  /\ ~ result[c].resp.Body.closed
  /\ ~ ReadAll(result[c].resp.Body).err
  /\ \E o \in TransportOutcomes :
       /\ ~ o.err /\ ~ o.Body.bad
       /\ o.StatusCode = result[c].resp.StatusCode
       /\ ReadAll(result[c].resp.Body).bytes = o.Body.data
       /\ result[c].resp.Header.val = o.Header

\* The step in which caller c calls Cache.Set.
SetsEntry(c) == Len(trace'[c]) = Len(trace[c]) + 1 /\ trace'[c][Len(trace'[c])].op = "Set"

\* C21: concurrent calls for one method, URL and body are not merged. When
\* every caller has made one such call and all have returned, the transport
\* was called at least once and at most once per call, every call that
\* returned without error returned a complete response, and every call either
\* was answered from the cache or made its own transport call; each Set
\* replaces the entry under its key by its own snapshot, so that the entry
\* left is the one of the last Set.
C21_NoDeduplication ==
  [][/\ \A c \in Callers :
          SetsEntry(c) =>
            /\ key[c] \in DOMAIN store'
            /\ store'[key[c]] = trace'[c][Len(trace'[c])].resp
            /\ store'[key[c]].Header.ref[2] = resp[c].Header.ref[2]
            /\ \A k \in DOMAIN store : k # key[c] => store'[k] = store[k]
     /\ (\A c \in Callers : ~ SetsEntry(c)) => store' = store
     /\ AllSameDone' =>
          /\ calls' \in 1..NumCallers
          /\ calls' = Cardinality({c \in Callers : ReachedTransport(c)'})
          /\ \A c \in Callers :
               /\ result'[c].err = "none" => CompleteResponse(c)'
               /\ result'[c].hit \/ ReachedTransport(c)'
    ]_vars

\* Every caller made one call for GET /v1/usr/00032112, all missed, and the
\* transport was called once per caller; the entry left is the second
\* response, which differs from the first.
C21_Witness ==
  /\ AllSameDone
  /\ calls = NumCallers
  /\ \A c \in Callers : ~ result[c].hit /\ result[c].err = "none"
  /\ \E c, d \in Callers :
       /\ result[c].resp.StatusCode = 200 /\ result[d].resp.StatusCode = 500
       /\ store[key[c]].StatusCode = 500

(***************************************************************************)
(* What a caller does with the response Do returned                        *)
(***************************************************************************)

\* Header.Set on the map named ref, as seen by a holder h of a header map.
WriteHeader(h, ref, v) == IF h.ref = ref THEN [h EXCEPT !.val.XTest = v] ELSE h

\* The caller sets a header of the response it was given: every holder of
\* that header map sees the new value.
UseHeader(c) ==
  /\ Returned(c)
  /\ result[c].err = "none"
  /\ result[c].resp.Header.val.XTest # << "changed" >>
  /\ result' = [d \in Callers |->
                  [result[d] EXCEPT !.resp.Header =
                     WriteHeader(@, result[c].resp.Header.ref, << "changed" >>)]]
  /\ resp' = [d \in Callers |->
                [resp[d] EXCEPT !.Header =
                   WriteHeader(@, result[c].resp.Header.ref, << "changed" >>)]]
  /\ store' = [k \in DOMAIN store |->
                 [store[k] EXCEPT !.Header =
                    WriteHeader(@, result[c].resp.Header.ref, << "changed" >>)]]
  /\ UNCHANGED <<pc, req, orig, key, trace, known, calls, issued, completed, live, usage, fnVars>>

\* The caller reads the body of the response it was given to its end.
UseBody(c) ==
  /\ Returned(c)
  /\ result[c].err = "none"
  /\ result[c].resp.Body.pos < Len(result[c].resp.Body.data)
  /\ result' = [result EXCEPT ![c].resp.Body = ReadAll(@).reader]
  /\ UNCHANGED <<pc, req, orig, key, resp, trace, known, store, calls, issued, completed, live, usage, fnVars>>

NextUse ==
  \/ NextSame
  \/ \E c \in Callers : UseHeader(c)
  \/ \E c \in Callers : UseBody(c)

SpecUse == Init /\ [][NextUse]_vars

\* C22 (as claimed): whatever the callers do with the responses Do returned
\* to them, every entry of the cache holds the status code, the headers and
\* the body bytes of the response it was made from.
C22_StoredEntryNeverMutated ==
  \A k \in DOMAIN store :
    /\ store[k].StatusCode = live[k].from.StatusCode
    /\ store[k].Header.val = live[k].from.Header
    /\ store[k].Body = live[k].from.Body

\* What holds: the snapshot handed to Set shares no header map with the
\* response returned on the miss, and the status code and the body bytes of
\* an entry stay as they were stored, whatever the callers do with the
\* responses of misses and hits.
StoredStatusAndBodyKept ==
  /\ \A k \in DOMAIN store :
       /\ store[k].StatusCode = live[k].from.StatusCode
       /\ store[k].Body = live[k].from.Body
  /\ \A c \in Callers :
       (Returned(c) /\ result[c].err = "none" /\ ~ result[c].hit)
         => result[c].resp.Header.ref \notin StoredHeaders

(***************************************************************************)
(* The steps of one call of cachingDoer.Do                                 *)
(***************************************************************************)

\* The kinds of the calls a call of Do has made, in their order.
Ops(c) == [i \in 1..Len(trace[c]) |-> trace[c][i].op]

\* C23: a call of Do makes at most one Cache.Get, then at most one call of
\* the wrapped transport, then at most one Cache.Set, in this order and with
\* no step repeated: before the transport answers it has made the Get only,
\* while it reads the response the Get and the transport call only; a call
\* that has returned made nothing (request body unreadable), the Get alone
\* (a hit), the Get and the transport call (transport or read error, or a
\* rate-limit URL), or all three, and a Set follows only a transport call
\* that gave a response whose body was read without error.
C23_PerRequestStateMachine ==
  \A c \in Callers :
    /\ pc[c] \in {"idle", "dispatch", "capture", "returned"}
    /\ pc[c] = "idle" => trace[c] = <<>>
    /\ pc[c] = "dispatch" => Ops(c) = << "Get" >>
    /\ pc[c] = "capture" => Ops(c) = << "Get", "Do" >>
    /\ Returned(c) =>
         /\ Ops(c) \in { <<>>, << "Get" >>, << "Get", "Do" >>, << "Get", "Do", "Set" >> }
         /\ result[c].hit <=> (Ops(c) = << "Get" >>)
         /\ Ops(c) = <<>> <=> result[c].err = "read request body"
         /\ Made(c, "Set") =>
              /\ result[c].err = "none"
              /\ resp[c] # NoResponse
              /\ ~ ReadAll(resp[c].Body).err
         /\ result[c].err \in {"transport", "read response body"} => Ops(c) = << "Get", "Do" >>

\* One call was answered by the transport and stored, another was answered
\* from the cache.
C23_Witness ==
  \E c, d \in Callers :
    /\ Returned(c) /\ Ops(c) = << "Get", "Do", "Set" >>
    /\ Returned(d) /\ Ops(d) = << "Get" >> /\ result[d].hit

\* The bodies the transport gives in full.
WholeBodies == { o.Body.data : o \in { t \in TransportOutcomes : ~ t.err /\ ~ t.Body.bad } }

\* C30: a call whose transport call gave a response with a body that failed
\* part-way returns the read error with that response, its body closed; it
\* made no Set, whatever the request; and no entry of the cache holds
\* anything but the whole body of a response.
C30_ResponseReadErrorNotStored ==
  /\ \A c \in Callers :
       (Returned(c) /\ resp[c] # NoResponse /\ resp[c].Body.bad) =>
         /\ result[c].err = "read response body"
         /\ ~ result[c].hit
         /\ Ops(c) = << "Get", "Do" >>
         /\ result[c].resp.Body.closed
         /\ result[c].resp.StatusCode = resp[c].StatusCode
  /\ \A k \in DOMAIN store : store[k].Body \in WholeBodies

\* The body of a response to a cacheable request failed part-way: the call
\* has returned the error, and the cache has no entry for the request.
C30_Witness ==
  \E c \in Callers :
    /\ Returned(c) /\ resp[c] # NoResponse /\ resp[c].Body.bad
    /\ result[c].err = "read response body"
    /\ orig[c].URL.Path = PathUsr
    /\ key[c] \notin DOMAIN store
    /\ result[c].resp.Body.closed

(***************************************************************************)
(* Status codes, with the cache of the example program                     *)
(***************************************************************************)

\* dumbFileCache.Set: a response of status 202 is dropped, any other replaces
\* the entry under key.
dumbFileCacheSet(st, url, k, r) == IF r.StatusCode = 202 THEN st ELSE Set(st, url, k, r)

\* What the transport answers, by status code.
StatusOutcomes ==
  { [err |-> FALSE, StatusCode |-> 200, Header |-> [XTest |-> <<"value">>], Body |-> NewReader(<<"{","\"","o","k","\"",":","t","r","u","e","}">>)],
    [err |-> FALSE, StatusCode |-> 202, Header |-> [XTest |-> <<"value">>], Body |-> NewReader(<<>>)],
    [err |-> FALSE, StatusCode |-> 404, Header |-> [XTest |-> <<"other">>], Body |-> NewReader(<<"n","o">>)],
    [err |-> FALSE, StatusCode |-> 500, Header |-> [XTest |-> <<"other">>], Body |-> NewReader(<<"n","o">>)] }

StatusRequests ==
  { NewRequest(GET,  PathUsr, <<>>, <<"b","e","a","r","e","r"," ","k","1">>, NoBody),
    NewRequest(POST, PathAffiliates, <<>>, <<"b","e","a","r","e","r"," ","k","1">>, NewReader(<<"{","}">>)) }

\* Do with the cache of the example program, whose entries do not expire
\* within a behaviour.
DoStoreFile(c) ==
  DoStoreTo(c, dumbFileCacheSet(store, cacheURL(req[c]), key[c], Snapshot(c)))

NextStatus ==
  \E c \in Callers :
    \/ \E r \in StatusRequests : DoHit(c, r) /\ UNCHANGED usage
    \/ \E r \in StatusRequests : DoMiss(c, r) /\ UNCHANGED usage
    \/ \E o \in StatusOutcomes : DoTransportAnswers(c, o)
    \/ DoStoreFile(c)

SpecStatus == Init /\ [][NextStatus]_vars

\* A call that missed, was answered by the transport and has returned.
AnsweredMiss(c) ==
  /\ Returned(c) /\ ~ result[c].hit /\ result[c].err = "none"
  /\ resp[c] # NoResponse

\* The Set calls of a call.
SetsOf(c) == { i \in 1..Len(trace[c]) : trace[c][i].op = "Set" }

\* The call made one Set, with its key and a snapshot that holds the status
\* code, the header values and the body bytes of the response it returned.
OneSetOfLiveResponse(c) ==
  /\ Cardinality(SetsOf(c)) = 1
  /\ \A i \in SetsOf(c) :
       /\ trace[c][i].key = key[c]
       /\ trace[c][i].key = cacheKey(orig[c]).key
       /\ trace[c][i].resp.StatusCode = resp[c].StatusCode
       /\ trace[c][i].resp.Header.val = resp[c].Header.val
       /\ trace[c][i].resp.Body = resp[c].Body.data
       /\ trace[c][i].resp.StatusCode = result[c].resp.StatusCode
       /\ trace[c][i].resp.Body = ReadAll(result[c].resp.Body).bytes

\* C24 (as claimed): a call that missed and was answered in full by the
\* transport made one Set with its key and a snapshot equal to the live
\* response, whatever the status code, and the response is stored: the cache
\* holds an entry under the key, so that later identical requests are
\* answered from it.
C24_EveryStatusStoredAndReplayed ==
  \A c \in Callers :
    AnsweredMiss(c) =>
      /\ OneSetOfLiveResponse(c)
      /\ key[c] \in DOMAIN store

\* C24 (amended): a call that missed and was answered in full by the
\* transport made one Set with its key and a snapshot equal to the live
\* response, whatever the status code; what is stored is the cache's choice.
\* The cache of the example program drops status 202: after a call answered
\* with another status the key has an entry, no entry has status 202, and
\* every call answered from the cache replays a status other than 202 with
\* the body the transport gave with that status.
C24_EveryStatusHandedToSet ==
  /\ \A c \in Callers :
       AnsweredMiss(c) =>
         /\ OneSetOfLiveResponse(c)
         /\ resp[c].StatusCode # 202 => key[c] \in DOMAIN store
  /\ \A k \in DOMAIN store : store[k].StatusCode # 202
  /\ \A c \in Callers :
       (Returned(c) /\ result[c].hit) =>
         /\ result[c].resp.StatusCode \in {404, 500, 200}
         /\ \E o \in StatusOutcomes :
              /\ o.StatusCode = result[c].resp.StatusCode
              /\ o.Body.data = ReadAll(result[c].resp.Body).bytes

\* A call answered 404 made its Set and was stored, and the next identical
\* request was answered 404 from the cache.
C24_Witness ==
  \E c, d \in Callers :
    /\ AnsweredMiss(c) /\ resp[c].StatusCode = 404
    /\ OneSetOfLiveResponse(c) /\ store[key[c]].StatusCode = 404
    /\ Returned(d) /\ result[d].hit /\ result[d].resp.StatusCode = 404
    /\ key[d] = key[c]
    /\ calls = 1

(***************************************************************************)
(* The storage bypass                                                      *)
(***************************************************************************)

PathRateLimitsHistory == <<"/","v","1","/","r","a","t","e","L","i","m","i","t","s","H","i","s","t","o","r","y">>

\* The rate-limit request, a request whose path has a segment that starts
\* with rateLimits, one that has the text in its query only, and one that
\* does not have it.
BypassRequests ==
  { NewRequest(GET, PathRateLimits, <<>>, <<"b","e","a","r","e","r"," ","k","1">>, NoBody),
    NewRequest(GET, PathRateLimitsHistory, <<>>, <<"b","e","a","r","e","r"," ","k","1">>, NoBody),
    NewRequest(GET, PathUsr, <<"n","e","x","t","=","/","r","a","t","e","L","i","m","i","t","s">>, <<"b","e","a","r","e","r"," ","k","1">>, NoBody),
    NewRequest(GET, PathUsr, <<>>, <<"b","e","a","r","e","r"," ","k","1">>, NoBody) }

NextBypass ==
  \E c \in Callers :
    \/ \E r \in BypassRequests : DoHit(c, r) /\ UNCHANGED usage
    \/ \E r \in BypassRequests : DoMiss(c, r) /\ UNCHANGED usage
    \/ \E o \in StatusOutcomes : DoTransportAnswers(c, o)
    \/ DoStore(c)
    \/ DoSkip(c)

SpecBypass == Init /\ [][NextBypass]_vars

\* Whether path has seg as one of its segments.
HasSegment(path, seg) ==
  \E i \in Occurrences(path, <<"/">> \o seg) :
    \/ i + Len(seg) + 1 > Len(path)
    \/ path[i + Len(seg) + 1] = "/"

\* C25 (as claimed): a call that was answered in full by the transport made
\* no Set if and only if the path of its request has the segment rateLimits;
\* every call made its Get.
C25_BypassByPathSegment ==
  \A c \in Callers :
    (Returned(c) /\ ~ result[c].hit) =>
      /\ Made(c, "Get")
      /\ ~ Made(c, "Set") <=> HasSegment(orig[c].URL.Path, <<"r","a","t","e","L","i","m","i","t","s">>)

\* What holds: a call that was answered in full by the transport made no Set
\* if and only if the text of its URL, query included, holds "/rateLimits"
\* anywhere; every call made its Get, with the URL sanitized.
BypassBySubstringOfURL ==
  \A c \in Callers :
    (Returned(c) /\ ~ result[c].hit) =>
      /\ Made(c, "Get")
      /\ ~ Made(c, "Set") <=> Contains(String(orig[c].URL), <<"/","r","a","t","e","L","i","m","i","t","s">>)

(***************************************************************************)
(* sanitizeURL on URL strings that url.Parse rejects                       *)
(***************************************************************************)

\* What comes before the query: the URL of a request, a path with an invalid
\* escape, a path with a cut-off escape, a path with a control character,
\* and a URL whose scheme is missing.
SanFailHeads ==
  { ServerURL \o PathUsr,
    ServerURL \o <<"/","v","1","/","u","s","r","/","%","z","z">>,
    ServerURL \o <<"/","v","1","/","u","s","r","/","%","2">>,
    ServerURL \o <<"/","v","1","/">> \o << "\t" >> \o <<"u","s","r">>,
    <<":","/","/","a","p","i",".","y","o","u","s","c","o","r","e",".","c","o","m",".","u","a","/","v","1","/","u","s","r">> }

SanFailInputs ==
  SanFailHeads
    \cup { h \o <<"?">> \o q : h \in SanFailHeads, q \in SanPieces \cup SanSinglePieces }

InitSanFail ==
  /\ DoInit
  /\ fnIn \in SanFailInputs
  /\ fnOut = NotApplied

SpecSanFail == InitSanFail /\ [][NextSan]_vars

\* C26: sanitizeURL gives a result for every URL string; for a string that
\* url.Parse rejects the result is the string itself, so that a deny-listed
\* query parameter it holds is in the result with its value.
C26_SanitizeFailsOpen ==
  (fnOut.applied /\ ~ Parse(fnIn).ok) =>
    /\ fnOut.out = fnIn
    /\ HoldsSensitiveParam(fnIn) => HoldsSensitiveParam(fnOut.out)
    /\ ParamsOf(fnOut.out) = ParamsOf(fnIn)

\* A URL whose path has an invalid escape is returned with its apikey.
C26_Witness ==
  /\ fnOut.applied
  /\ fnIn = ServerURL \o <<"/","v","1","/","u","s","r","/","%","z","z","?","a","p","i","k","e","y","=","k">>
  /\ ~ Parse(fnIn).ok
  /\ fnOut.out = ServerURL \o <<"/","v","1","/","u","s","r","/","%","z","z","?","a","p","i","k","e","y","=","k">>
  /\ HoldsSensitiveParam(fnOut.out)

(***************************************************************************)
(* The options of a client and its list of request editors                 *)
(***************************************************************************)

\* The most operations a client is used for.
MaxOperations == 2

\* The HttpRequestDoer of a client: none yet, the default network client,
\* a doer of the caller such as the fakeDoer of the tests, or a cachingDoer
\* around another doer.
NilDoer    == [kind |-> "nil"]
HttpClient == [kind |-> "transport", name |-> "http.Client"]
fakeDoer(name) == [kind |-> "transport", name |-> name]
cachingDoer(inner, cache) == [kind |-> "cachingDoer", inner |-> inner, cache |-> cache]

\* A client under construction: its editors in the order of registration,
\* and its HttpRequestDoer.
NewClient == [RequestEditors |-> <<>>, Client |-> NilDoer]

\* The options WithCache and WithHTTPClient give.
WithCacheOption(cache) == [kind |-> "cache", key |-> <<>>, keys |-> TestKeys, cache |-> cache]
WithHTTPClientOption(doer) == [kind |-> "transport", key |-> <<>>, keys |-> TestKeys, doer |-> doer]
CacheOption == WithCacheOption("c1")

\* WithRequestEditorFn, through which WithBearerAuth and WithAPIKeys
\* register their editor.
WithRequestEditorFn(cl, e) == [cl EXCEPT !.RequestEditors = Append(@, e)]

\* A WithUsageTracking that puts its editor before the registered ones.
WithUsageTrackingFirst(cl) == [cl EXCEPT !.RequestEditors = << UsageTracking >> \o @]

\* The option of WithUsageTracking, applied to a client.
WithUsageTracking(cl) == [cl EXCEPT !.RequestEditors = Append(@, UsageTracking)]

\* A WithCache that wraps the default network client whatever the client has.
WithCacheOverDefault(cl, cache) == [cl EXCEPT !.Client = cachingDoer(HttpClient, cache)]

\* The option of WithCache, applied to a client: the doer the client has at
\* this moment, or the default network client when it has none, is wrapped.
WithCache(cl, cache) ==
  [cl EXCEPT !.Client = cachingDoer(IF @ = NilDoer THEN HttpClient ELSE @, cache)]

\* The option of WithHTTPClient, applied to a client.
WithHTTPClient(cl, doer) == [cl EXCEPT !.Client = doer]

\* One option applied to the client, as the constructor does in its loop.
applyOption(cl, opt) ==
  IF opt.kind = "usage" THEN WithUsageTracking(cl)
  ELSE IF opt.kind = "cache" THEN WithCache(cl, opt.cache)
  ELSE IF opt.kind = "transport" THEN WithHTTPClient(cl, opt.doer)
  ELSE WithRequestEditorFn(cl, opt)

ClientOptions == EditEditors \cup { CacheOption }

OptionLists == UNION { [1..n -> ClientOptions] : n \in 0..MaxEditors }

OperationRequests ==
  { EditRequest(GET, PathUsr, <<>>, NoBody),
    EditRequest(POST, PathAffiliates, <<>>, NewReader(<<"{","}">>)) }

InitOptions ==
  /\ DoInit
  /\ fnIn \in [options : OptionLists]
  /\ fnOut = [applied |-> FALSE, client |-> NewClient, n |-> 0, ops |-> 0,
              last |-> Edited(NoRequest, <<>>)]

\* The constructor applies the next option.
ApplyOption ==
  /\ ~ fnOut.applied
  /\ fnOut.n < Len(fnIn.options)
  /\ fnOut' = [fnOut EXCEPT !.client = applyOption(@, fnIn.options[fnOut.n + 1]),
                            !.n = @ + 1]
  /\ UNCHANGED <<doVars, fnIn>>

\* The constructor returns the client.
ClientBuilt ==
  /\ ~ fnOut.applied
  /\ fnOut.n = Len(fnIn.options)
  /\ fnOut' = [fnOut EXCEPT !.applied = TRUE]
  /\ UNCHANGED <<doVars, fnIn>>

\* An operation of the client runs the editors on its request.
ClientOperation ==
  /\ fnOut.applied
  /\ fnOut.ops < MaxOperations
  /\ \E r \in OperationRequests :
       fnOut' = [fnOut EXCEPT !.ops = @ + 1,
                              !.last = applyEditors(fnOut.client.RequestEditors, "ctx1", r)]
  /\ UNCHANGED <<doVars, fnIn>>

NextOptions == ApplyOption \/ ClientBuilt \/ ClientOperation

SpecOptions == InitOptions /\ [][NextOptions]_vars

\* The editors among a list of options, in the order of the list.
EditorsAmong(opts) == SelectSeq(opts, LAMBDA o : o.kind # "cache")

\* C27: the client's editor list is, at every point of its construction, the
\* editors of the options applied so far in the order of their application:
\* each editor option has added its one editor at the end and left the
\* others in place, WithCache has added none; once the client is built the
\* list is that of all its options, whatever operations have run.
C27_EditorsAppendOnly ==
  /\ fnOut.client.RequestEditors = EditorsAmong(SubSeq(fnIn.options, 1, fnOut.n))
  /\ fnOut.applied =>
       /\ fnOut.n = Len(fnIn.options)
       /\ fnOut.client.RequestEditors = EditorsAmong(fnIn.options)
  /\ fnOut.ops > 0 => fnOut.applied

\* A client built with WithBearerAuth and then WithUsageTracking has the two
\* editors in this order after its operations.
C27_Witness ==
  /\ fnOut.applied
  /\ fnIn.options = << BearerAuth(<<"k","1">>), UsageTracking >>
  /\ fnOut.client.RequestEditors = << BearerAuth(<<"k","1">>), UsageTracking >>
  /\ fnOut.ops = MaxOperations
  /\ Len(fnOut.last.calls) = 1

(***************************************************************************)
(* One auth editor, applied to the requests of a client one after another  *)
(***************************************************************************)

AuthEditors ==
  { BearerAuth(<<"k","1">>), BearerAuth(<<>>), WithKeys(TestKeys), WithKeys(OtherKeys) }

\* A request with other headers next to Authorization.
AuthRequest(method, path, body) ==
  [EditRequest(method, path, <<>>, body) EXCEPT
     !.Header = [Authorization |-> << <<"B","a","s","i","c"," ","x">>, <<"b","e","a","r","e","r"," ","y">> >>,
                 Accept        |-> << <<"a","p","p","l","i","c","a","t","i","o","n","/","j","s","o","n">> >>,
                 ContentType   |-> IF body = NoBody THEN <<>> ELSE << <<"a","p","p","l","i","c","a","t","i","o","n","/","j","s","o","n">> >>]]

AuthRequests ==
  { AuthRequest(GET, p, NoBody) : p \in { PathUsr, PathRateLimits, <<"/","v","1","/","c","o","n","t","r","a","c","t","o","r","s","/","p","d","f","-","f","i","l","e","/","1">> } }
    \cup { AuthRequest(POST, PathAffiliates, NewReader(<<"{","}">>)) }

InitAuth ==
  /\ DoInit
  /\ fnIn \in [editor : AuthEditors,
               reqs : UNION { [1..n -> AuthRequests] : n \in 1..MaxOperations }]
  /\ fnOut = [applied |-> FALSE, outs |-> <<>>]

\* The editor runs on the next request of the client.
ApplyAuthEditor ==
  /\ ~ fnOut.applied
  /\ fnOut' = [applied |-> Len(fnOut.outs) + 1 = Len(fnIn.reqs),
               outs |-> Append(fnOut.outs,
                               runEditor(fnIn.editor, "ctx1", fnIn.reqs[Len(fnOut.outs) + 1]))]
  /\ UNCHANGED <<doVars, fnIn>>

NextAuth == ApplyAuthEditor

SpecAuth == InitAuth /\ [][NextAuth]_vars

\* C28: an auth editor succeeds on every request and leaves its method, URL,
\* body and every header but Authorization as they were; the Authorization
\* it sets is made from the keys the option was given, for the first request
\* and for every later one.
C28_AuthEditorsFrame ==
  \A i \in 1..Len(fnOut.outs) :
    /\ ~ fnOut.outs[i].err
    /\ fnOut.outs[i].calls = <<>>
    /\ fnOut.outs[i].req.Method = fnIn.reqs[i].Method
    /\ fnOut.outs[i].req.URL = fnIn.reqs[i].URL
    /\ fnOut.outs[i].req.Body = fnIn.reqs[i].Body
    /\ DOMAIN fnOut.outs[i].req.Header = DOMAIN fnIn.reqs[i].Header
    /\ \A h \in DOMAIN fnIn.reqs[i].Header \ {"Authorization"} :
         fnOut.outs[i].req.Header[h] = fnIn.reqs[i].Header[h]
    /\ fnOut.outs[i].req.Header.Authorization =
         << <<"b","e","a","r","e","r"," ">> \o EditorKey(fnIn.editor, fnIn.reqs[i].URL.Path) >>

\* WithAPIKeys has edited a POST for the affiliates path and then a GET for
\* /v1/usr: each has its own key, its body and its other headers.
C28_Witness ==
  /\ fnOut.applied
  /\ fnIn.editor = WithKeys(TestKeys)
  /\ Len(fnOut.outs) = 2
  /\ fnIn.reqs[1].URL.Path = PathAffiliates /\ fnIn.reqs[2].URL.Path = PathUsr
  /\ fnOut.outs[1].req.Header.Authorization = << <<"b","e","a","r","e","r"," ","a","f","f","-","k","e","y">> >>
  /\ fnOut.outs[2].req.Header.Authorization = << <<"b","e","a","r","e","r"," ","d","a","-","k","e","y">> >>
  /\ fnOut.outs[1].req.Body = NewReader(<<"{","}">>)
  /\ fnOut.outs[1].req.Header.ContentType = << <<"a","p","p","l","i","c","a","t","i","o","n","/","j","s","o","n">> >>

(***************************************************************************)
(* Where the entries of the cache come from                                *)
(***************************************************************************)

\* The cache key of each request of the model.
KeyOf == [r \in Requests |-> cacheKey(r).key]

\* The keys of the rate-limit requests, and of the others whose body reads.
RateLimitKeys == { KeyOf[r] : r \in { q \in Requests : IsRateLimit(q) } }
StorableKeys  == { KeyOf[r] : r \in { q \in Requests : ~ IsRateLimit(q) /\ ~ q.Body.bad } }

\* What an entry holds for its reader.
Content(entry) ==
  [StatusCode |-> entry.StatusCode, Header |-> entry.Header.val, Body |-> entry.Body]

\* The call has written to the cache: it missed, its transport call answered
\* without error, its request is not a rate-limit request, and its one Set
\* carries the key of its request and the content of the live response.
StoredByMiss(c) ==
  /\ Ops(c) = << "Get", "Do", "Set" >>
  /\ ~ result[c].hit /\ result[c].err = "none"
  /\ resp[c] # NoResponse /\ ~ resp[c].Body.bad
  /\ ~ IsRateLimit(orig[c])
  /\ trace[c][3].key = KeyOf[orig[c]]
  /\ Content(trace[c][3].resp) =
       [StatusCode |-> resp[c].StatusCode, Header |-> resp[c].Header.val,
        Body |-> resp[c].Body.data]

\* Every entry lies under the key of a storable request and holds the live
\* response returned when the key was last stored; every call that wrote to
\* the cache was a miss answered without error; no entry lies under the key of
\* a rate-limit request.
EntriesComeFromMisses ==
  /\ \A k \in DOMAIN store :
       /\ k \in StorableKeys
       /\ k \notin RateLimitKeys
       /\ k \in DOMAIN live
       /\ Content(store[k]) = live[k].from
  /\ \A c \in Callers : (Returned(c) /\ Made(c, "Set")) => StoredByMiss(c)

\* C31 (as claimed): every entry was stored by a request that missed, was
\* dispatched without error and was not a rate-limit request, under the key of
\* that request and with the content of its live response; and no entry exists
\* under the key of a rate-limit request or of a request whose transport call
\* failed.
C31_EntriesOnlyFromSuccessfulMisses ==
  /\ EntriesComeFromMisses
  /\ \A c \in Callers :
       (Returned(c) /\ result[c].err = "transport") => key[c] \notin DOMAIN store

\* C31 (amended): every entry was stored by a request that missed, was
\* dispatched without error and was not a rate-limit request, under the key of
\* that request and with the content of its live response; no entry exists
\* under the key of a rate-limit request, and a call whose transport call
\* failed has not written to the cache. An entry may lie under the key of a
\* request whose transport call failed: an identical request that was
\* answered has stored it.
C31_EntriesStoredBySuccessfulMisses ==
  /\ EntriesComeFromMisses
  /\ \A c \in Callers :
       (Returned(c) /\ result[c].err \in {"transport", "read response body"}) =>
         ~ Made(c, "Set")

\* One call has failed at the transport and an identical request has been
\* answered and stored; the entry holds that answer.
C31_Witness ==
  \E c, d \in Callers :
    /\ Returned(c) /\ result[c].err = "transport"
    /\ Returned(d) /\ StoredByMiss(d)
    /\ key[c] = key[d]
    /\ key[d] \in DOMAIN store
    /\ Content(store[key[d]]) = live[key[d]].from
    /\ store[key[d]].StatusCode = 500

(***************************************************************************)
(* sanitizeURL applied to its own result                                   *)
(***************************************************************************)

\* Query pieces that are combined freely: names out of order, a repeated
\* name, two sensitive names, a value that is escaped anew, a piece that
\* ParseQuery drops and a piece without "=".
IdemPieces ==
  { <<"p","a","g","e","=","2">>, <<"l","i","m","i","t","=","1","0">>, <<"p","a","g","e","=","1">>, <<"t","o","k","e","n","=","a","b","c">>, <<"A","p","i","K","e","y","=","s","3","c","r","3","t">>,
    <<"x","=","a","%","2","0","b">>, <<"a",";","b","=","1">>, <<"f","l","a","g">> }

IdemQueries ==
  { joinAmp(ps) : ps \in UNION { [1..n -> IdemPieces] : n \in 0..MaxParams } }
    \cup SanSinglePieces

\* URLs that parse, with these queries, and the URLs that url.Parse rejects.
IdemInputs ==
  { SanBase } \cup { SanBase \o <<"?">> \o q : q \in IdemQueries } \cup SanFailInputs

InitIdem ==
  /\ DoInit
  /\ fnIn \in IdemInputs
  /\ fnOut = NotApplied

\* sanitizeURL is applied to the result of sanitizeURL.
ApplySanitizeURLAgain ==
  /\ fnOut.applied
  /\ "again" \notin DOMAIN fnOut
  /\ fnOut' = [applied |-> TRUE, out |-> fnOut.out, again |-> sanitizeURL(fnOut.out)]
  /\ UNCHANGED <<doVars, fnIn>>

NextIdem == ApplySanitizeURL \/ ApplySanitizeURLAgain

SpecIdem == InitIdem /\ [][NextIdem]_vars

AppliedTwice == fnOut.applied /\ "again" \in DOMAIN fnOut

\* C32: sanitizeURL applied to a result of sanitizeURL gives that result; a
\* result that url.Parse accepts has no deny-listed parameter, and its
\* names are in sorted order.
C32_SanitizeIdempotent ==
  AppliedTwice =>
    /\ fnOut.again = fnOut.out
    /\ Parse(fnIn).ok =>
         /\ \A n \in NamesOf(ParamsOf(fnOut.out)) : ~ DenyListed(n)
         /\ NamesSorted(ParamsOf(fnOut.out))

\* A URL with two sensitive names, names out of order and a value that is
\* escaped anew has been sanitized twice; the first pass changed it.
C32_Witness ==
  /\ AppliedTwice
  /\ fnIn = SanBase \o <<"?","t","o","k","e","n","=","a","b","c","&","p","a","g","e","=","2","&","A","p","i","K","e","y","=","s","3","c","r","3","t">>
  /\ fnOut.out = SanBase \o <<"?","p","a","g","e","=","2">>
  /\ fnOut.again = SanBase \o <<"?","p","a","g","e","=","2">>

(***************************************************************************)
(* The two routing tables on one path                                      *)
(***************************************************************************)

TableInputs == PathInputs \cup TypeInputs

InitTables ==
  /\ DoInit
  /\ fnIn \in TableInputs
  /\ fnOut = NotApplied

\* The editor of WithAPIKeys chooses the key of the path.
ApplyKeyTable ==
  /\ fnOut = NotApplied
  /\ fnOut' = [applied |-> TRUE, key |-> apiKeyForPath(TestKeys, fnIn)]
  /\ UNCHANGED <<doVars, fnIn>>

\* The editor of WithUsageTracking classifies the same path.
ApplyTypeTable ==
  /\ fnOut # NotApplied
  /\ "type" \notin DOMAIN fnOut
  /\ fnOut' = [applied |-> TRUE, key |-> fnOut.key, type |-> aPITypeForPath(fnIn)]
  /\ UNCHANGED <<doVars, fnIn>>

NextTables == ApplyKeyTable \/ ApplyTypeTable

SpecTables == InitTables /\ [][NextTables]_vars

BothApplied == fnOut.applied /\ "type" \in DOMAIN fnOut

\* The switch of aPITypeForPath with its two cases in the other order.
AnalysisCaseFirst(path) ==
  IF hasAnyPrefix(TrimPrefix(path, <<"/">>), analysisPrefixes) THEN APITypeAnalysis
  ELSE IF hasAnyPrefix(TrimPrefix(path, <<"/">>), customPrefixes) THEN APITypeCustom
  ELSE APITypeData

\* No prefix of one case starts with a prefix of the other case: no path
\* starts with a prefix of each.
CasesApart ==
  \A i \in 1..Len(customPrefixes), j \in 1..Len(analysisPrefixes) :
    /\ ~ HasPrefix(customPrefixes[i], analysisPrefixes[j])
    /\ ~ HasPrefix(analysisPrefixes[j], customPrefixes[i])

\* C33: a path for which apiKeyForPath chooses the key of PDFLegalEntities,
\* PDFIndividuals or Affiliates is of type custom for aPITypeForPath; the
\* prefixes of the custom case and those of the analysis case are apart, no
\* path starts with one of each, and the type is the same with the two cases
\* in the other order.
C33_TablesAgree ==
  /\ CasesApart
  /\ BothApplied =>
       /\ fnOut.key \in {TestKeys.PDFLegalEntities, TestKeys.PDFIndividuals, TestKeys.Affiliates}
            => fnOut.type = APITypeCustom
       /\ ~ (/\ hasAnyPrefix(TrimPrefix(fnIn, <<"/">>), customPrefixes)
             /\ hasAnyPrefix(TrimPrefix(fnIn, <<"/">>), analysisPrefixes))
       /\ fnOut.type = AnalysisCaseFirst(fnIn)

\* The affiliates query path has been given the Affiliates key and the type
\* custom.
C33_Witness ==
  /\ BothApplied
  /\ fnIn = <<"/","v","1","/","a","f","f","i","l","i","a","t","e","s","/","q","u","e","r","y">>
  /\ fnOut.key = TestKeys.Affiliates
  /\ fnOut.type = APITypeCustom

(***************************************************************************)
(* The transport of a built client: WithCache and WithHTTPClient           *)
(***************************************************************************)

\* The most options a client is built with.
MaxOptions == 3

CacheNames == { "c1", "c2" }
DoerNames  == { "fake", "http.Client" }

\* What every transport of this specification answers: the response of the
\* fakeDoer of the tests.
FakeOutcome ==
  [err |-> FALSE, StatusCode |-> 200, Header |-> [XTest |-> <<"value">>],
   Body |-> NewReader(<<"{","\"","o","k","\"",":","t","r","u","e","}">>)]

\* One call on a cache or on a transport, as Do makes it.
ChainEvent(op, name, hit) == [op |-> op, name |-> name, hit |-> hit]

\* The caches, the calls made for one request, the number of calls of each
\* transport, and the response.
NoChainState ==
  [caches |-> [c \in CacheNames |-> EmptyStore], log |-> <<>>,
   calls |-> [d \in DoerNames |-> 0], resp |-> NoResponse, hit |-> FALSE]

\* A transport at the end of the chain answers.
transportDo(doer, r, st) ==
  [st EXCEPT !.log   = Append(@, ChainEvent("Do", doer.name, FALSE)),
             !.calls = [@ EXCEPT ![doer.name] = @ + 1],
             !.resp  = LiveResponse(FakeOutcome, st.calls["fake"] + st.calls["http.Client"] + 1),
             !.hit   = FALSE]

\* cachingDoer.Do on a hit: the stored response is returned.
chainHit(d, cached, st) ==
  [st EXCEPT !.log  = Append(@, ChainEvent("Get", d.cache, TRUE)),
             !.resp = [StatusCode |-> cached.StatusCode, Header |-> cached.Header,
                       Body |-> NewReader(cached.Body)],
             !.hit  = TRUE]

\* cachingDoer.Do once d.inner.Do has returned in: the body is read, the
\* response is stored unless the URL is one of the rate limits, and returned.
chainCapture(d, k, in) ==
  IF skipCache(k.req)
    THEN [in EXCEPT !.resp.Body = NewReader(ReadAll(in.resp.Body).bytes), !.hit = FALSE]
    ELSE [in EXCEPT
            !.caches = [@ EXCEPT ![d.cache] =
                          Set(@, cacheURL(k.req), k.key,
                              CachedResponse(in.resp.StatusCode, CloneHeader(in.resp.Header),
                                             ReadAll(in.resp.Body).bytes))],
            !.log    = Append(@, ChainEvent("Set", d.cache, FALSE)),
            !.resp.Body = NewReader(ReadAll(in.resp.Body).bytes),
            !.hit    = FALSE]

\* Do of the client's HttpRequestDoer, whatever it is: a transport answers, a
\* cachingDoer looks into its cache and calls Do of the doer it wraps on a miss.
RECURSIVE doerDo(_, _, _)

cachingDoerDo(d, k, st) ==
  IF Get(st.caches[d.cache], cacheURL(k.req), k.key).ok
    THEN chainHit(d, Get(st.caches[d.cache], cacheURL(k.req), k.key).resp, st)
    ELSE chainCapture(d, k,
           doerDo(d.inner, k.req,
                  [st EXCEPT !.log = Append(@, ChainEvent("Get", d.cache, FALSE))]))

doerDo(doer, r, st) ==
  IF doer.kind = "cachingDoer" THEN cachingDoerDo(doer, cacheKey(r), st)
  ELSE transportDo(doer, r, st)

ChainOptions ==
  { WithHTTPClientOption(fakeDoer("fake")) } \cup { WithCacheOption(c) : c \in CacheNames }

ChainOptionLists == UNION { [1..n -> ChainOptions] : n \in 1..MaxOptions }

ChainRequests ==
  { NewRequest(GET,  PathUsr, <<>>, <<"b","e","a","r","e","r"," ","k","1">>, NoBody),
    NewRequest(POST, PathAffiliates, <<>>, <<"b","e","a","r","e","r"," ","k","1">>, NewReader(<<"{","}">>)),
    NewRequest(GET,  PathRateLimits, <<>>, <<"b","e","a","r","e","r"," ","k","1">>, NoBody) }

InitChain ==
  /\ DoInit
  /\ fnIn \in [options : ChainOptionLists]
  /\ fnOut = [applied |-> FALSE, client |-> NewClient, n |-> 0, ops |-> 0,
              req |-> NoRequest, before |-> NoChainState, chain |-> NoChainState]

\* An operation of the built client sends its request through the client's
\* HttpRequestDoer.
ChainOperation ==
  /\ fnOut.applied
  /\ fnOut.ops < MaxOperations
  /\ \E r \in ChainRequests :
       fnOut' = [fnOut EXCEPT
                   !.ops    = @ + 1,
                   !.req    = r,
                   !.before = fnOut.chain,
                   !.chain  = doerDo(fnOut.client.Client, r, [fnOut.chain EXCEPT !.log = <<>>])]
  /\ UNCHANGED <<doVars, fnIn>>

NextChain == ApplyOption \/ ClientBuilt \/ ChainOperation

SpecChain == InitChain /\ [][NextChain]_vars

\* The place of the last transport option of a list of options, 0 for none.
LastTransport(opts) ==
  IF \E i \in 1..Len(opts) : opts[i].kind = "transport"
    THEN CHOOSE i \in 1..Len(opts) :
           /\ opts[i].kind = "transport"
           /\ \A j \in (i + 1)..Len(opts) : opts[j].kind # "transport"
    ELSE 0

\* The caches of the WithCache options after it, in the order of the list.
WrappingCaches(opts) ==
  [i \in 1..(Len(opts) - LastTransport(opts)) |-> opts[LastTransport(opts) + i].cache]

\* The transport at the end: that of the last transport option, or the
\* default network client.
BaseDoer(opts) ==
  IF LastTransport(opts) = 0 THEN "http.Client" ELSE opts[LastTransport(opts)].doer.name

ChainKeyOf == [r \in ChainRequests |-> cacheKey(r).key]

\* Counted from the outermost decorator, the first whose cache held the key
\* of the request before the operation; 0 when none did.
HitDepth(W, caches, k) ==
  IF \E i \in 1..Len(W) : k \in DOMAIN caches[W[Len(W) - i + 1]]
    THEN CHOOSE i \in 1..Len(W) :
           /\ k \in DOMAIN caches[W[Len(W) - i + 1]]
           /\ \A j \in 1..(i - 1) : k \notin DOMAIN caches[W[Len(W) - j + 1]]
    ELSE 0

\* The calls of one request through decorators around the caches W (the
\* innermost first) and the transport base: the decorators are asked from
\* the outermost inwards down to the first hit, the transport is called when
\* none has hit, and every decorator that missed stores on the way back,
\* the innermost first, unless the request is one of the rate limits.
ExpectedLog(W, base, depth, skip) ==
  [i \in 1..(IF depth = 0 THEN Len(W) ELSE depth) |->
     ChainEvent("Get", W[Len(W) - i + 1], i = depth)]
  \o (IF depth = 0 THEN << ChainEvent("Do", base, FALSE) >> ELSE << >>)
  \o (IF skip THEN << >>
      ELSE [j \in 1..(IF depth = 0 THEN Len(W) ELSE depth - 1) |->
              ChainEvent("Set", W[Len(W) - (IF depth = 0 THEN Len(W) ELSE depth - 1) + j], FALSE)])

\* C34: WithCache wraps the transport the client has when the option is
\* applied, the default network client when it has none, and puts the
\* decorator in its place. A request of the built client goes through the
\* decorators of the WithCache options that come after the last transport
\* option, the last applied first, each asking its cache before the next is
\* tried and the transport last of all; the caches of WithCache options that
\* come before a transport option are never asked or written, and no
\* transport but the last one set (or the default one) is called.
C34_WithCacheWrapsCurrentTransport ==
  /\ fnOut.applied =>
       /\ fnOut.n = Len(fnIn.options)
       /\ fnOut.client.Client.kind = "cachingDoer" <=> WrappingCaches(fnIn.options) # << >>
  /\ fnOut.ops > 0 =>
       /\ fnOut.chain.log =
            ExpectedLog(WrappingCaches(fnIn.options), BaseDoer(fnIn.options),
                        HitDepth(WrappingCaches(fnIn.options), fnOut.before.caches,
                                 ChainKeyOf[fnOut.req]),
                        IsRateLimit(fnOut.req))
       /\ \A d \in DoerNames \ {BaseDoer(fnIn.options)} : fnOut.chain.calls[d] = 0
       /\ \A c \in CacheNames :
            (\A i \in 1..Len(WrappingCaches(fnIn.options)) : WrappingCaches(fnIn.options)[i] # c)
              => fnOut.chain.caches[c] = EmptyStore
       /\ fnOut.chain.resp.StatusCode = 200
       /\ ReadAll(fnOut.chain.resp.Body).bytes = FakeOutcome.Body.data

\* A client built with WithHTTPClient(fake), WithCache(c1), WithCache(c2) has
\* sent a request: the decorator of c2 missed, then that of c1 missed, then
\* the fake transport answered, and both stored; the same request sent again
\* has been answered by the decorator of c2 alone.
C34_Witness ==
  /\ fnIn.options = << WithHTTPClientOption(fakeDoer("fake")), WithCacheOption("c1"),
                       WithCacheOption("c2") >>
  /\ fnOut.ops = 2
  /\ fnOut.req = NewRequest(GET, PathUsr, <<>>, <<"b","e","a","r","e","r"," ","k","1">>, NoBody)
  /\ fnOut.before.log =
       << ChainEvent("Get", "c2", FALSE), ChainEvent("Get", "c1", FALSE),
          ChainEvent("Do", "fake", FALSE),
          ChainEvent("Set", "c1", FALSE), ChainEvent("Set", "c2", FALSE) >>
  /\ fnOut.chain.log = << ChainEvent("Get", "c2", TRUE) >>
  /\ fnOut.chain.calls["fake"] = 1

\* A client built with WithCache(c1) and then WithHTTPClient(fake) has sent
\* two requests: both went to the fake transport and c1 was not asked.
TransportOptionReplacesDecorator ==
  /\ fnIn.options = << WithCacheOption("c1"), WithHTTPClientOption(fakeDoer("fake")) >>
  /\ fnOut.ops = 2
  /\ fnOut.chain.log = << ChainEvent("Do", "fake", FALSE) >>
  /\ fnOut.chain.calls["fake"] = 2

\* A client built with WithCache(c1) alone has sent a request to the default
\* network client through the decorator.
WithCacheWrapsDefaultClient ==
  /\ fnIn.options = << WithCacheOption("c1") >>
  /\ fnOut.ops = 1
  /\ fnOut.chain.log =
       << ChainEvent("Get", "c1", FALSE), ChainEvent("Do", "http.Client", FALSE),
          ChainEvent("Set", "c1", FALSE) >>
=============================================================================
